---- MODULE Spec2Model ----
(***************************************************************************)
(* Model of the Bodicise browser front end: the static class ApiClient     *)
(* (assets/js/api-client.js) - its request/response interceptor pipeline,  *)
(* retry and batch helpers, TTL cache and error classifier - as a state    *)
(* machine, and the card number check of the class Utils.                  *)
(*                                                                         *)
(* JavaScript is single threaded: an async function runs without           *)
(* interruption from one await to the next.  Every action below is one     *)
(* such run-to-completion segment, together with every call it makes.      *)
(*                                                                         *)
(* Conventions.  An object literal is a function from its keys, and the    *)
(* spread {...a, ...b} is Merge(a, b).  A string that the code takes apart *)
(* or puts together (a URL, a content-type value) is a sequence of         *)
(* fragments, so concatenation is \o and String.includes is a search for   *)
(* a contiguous run of fragments.  Every run-time value that can be        *)
(* returned or thrown is a record with a "kind" field.                     *)
(***************************************************************************)
EXTENDS Integers, Sequences, FiniteSets, TLC

VARIABLES
    storageOk,             \* environment: window.localStorage can be accessed
    localStorage,          \* the browser key-value store: keys authToken, user
    loaded,                \* the script's top-level statement (line 631) has run
    baseUrl,               \* ApiClient.baseUrl
    authToken,             \* ApiClient.authToken
    requestInterceptors,   \* ApiClient.requestInterceptors
    responseInterceptors,  \* ApiClient.responseInterceptors
    redirect,              \* where handleUnauthorized has sent the page, if anywhere
    pc,                    \* position of the one call of request being followed
    options,               \* request: the options argument
    url,                   \* request: const url
    initialConfig,         \* request: config as built on lines 77-81
    config,                \* request: the value bound to config
    response,              \* request: const response, the value fetch resolved with
    parseAs,               \* request: which body reader is awaited, json or text
    data,                  \* request: let data, the parsed body
    outcome,               \* how the promise returned by request settled
    reqLog,                \* observed: the calls of request interceptors made by this call
    fetchLog,              \* observed: the calls of fetch made by this call
    okLog,                 \* observed: the onFulfilled callbacks invoked by this call
    errLog,                \* observed: the onRejected callbacks invoked by this call
    rPc,                   \* position of the one call of retryRequest being followed
    rMax,                  \* retryRequest: maxRetries
    rDelay,                \* retryRequest: delay
    rI,                    \* retryRequest: the loop variable i
    rCalls,                \* observed: the number of invocations of requestFn
    rLog,                  \* observed: how each invocation of requestFn settled
    rSleeps,               \* observed: the timeouts set, in milliseconds
    rOutcome,              \* how the promise returned by retryRequest settled
    cache,                 \* ApiClient.cache: key -> {data, timestamp, timeout}
    now,                   \* environment: the value of Date.now(), in milliseconds
    cRet,                  \* observed: the key and return value of the last call of getCache
    gPc,                   \* position of the one call of getWithCache being followed
    gKey,                  \* getWithCache: const key
    gCached,               \* getWithCache: const cached
    gOutcome,              \* how the promise returned by getWithCache settled
    gWrote,                \* observed: this call of getWithCache called setCache
    parked,                \* the call of getWithCache in progress that is not the one followed, if any
    bPc,                   \* position of the one call of batchRequest being followed
    bRequests,             \* batchRequest: the argument requests, each callable named by what it does
    bStarted,              \* observed: the number of callables invoked
    bResults,              \* the settlement of each promise passed to Promise.allSettled
    bOrder,                \* observed: the order in which those promises settled
    bOutcome,              \* how the promise returned by batchRequest settled
    hError,                \* handleError: the argument error
    hMessage,              \* handleError: what the call returned or threw
    cardArg,               \* Utils.isValidCreditCard: the argument cardNumber
    cardValid,             \* Utils.isValidCreditCard: what the call returned
    currentUser,           \* App.currentUser
    isInitialized,         \* App.isInitialized
    listeners,             \* observed: how many times setupEventListeners installed the listeners
    aPc,                   \* position of each call of App.init being followed
    authLog,               \* observed: what the last call of initializeAuth read, awaited and did
    owner,                 \* which call of App awaits the call of request being followed
    lPc,                   \* position of the one call of App.login being followed
    lRet,                  \* what the promise returned by App.login resolved with
    oPc,                   \* position of the one call of App.logout being followed
    oOutcome,              \* how the promise returned by App.logout settled
    dKind,                 \* debounce: which of Utils.debounce and App.debounce made the function
    dImmediate,            \* debounce: the argument immediate
    dWait,                 \* debounce: the argument wait, in milliseconds
    dNow,                  \* environment: the time, in milliseconds
    dTimeout,              \* debounce: let timeout, the variable of the closure
    dPending,              \* the timer set by setTimeout that has neither fired nor been cleared
    dCalls,                \* observed: the calls of the debounced function
    dInvocations           \* observed: the invocations of func

vars == <<storageOk, localStorage, loaded, baseUrl, authToken, requestInterceptors,
          responseInterceptors, redirect, pc, options, url, initialConfig, config, response,
          parseAs, data, outcome, reqLog, fetchLog, okLog, errLog,
          rPc, rMax, rDelay, rI, rCalls, rLog, rSleeps, rOutcome,
          cache, now, cRet, gPc, gKey, gCached, gOutcome, gWrote, parked,
          bPc, bRequests, bStarted, bResults, bOrder, bOutcome,
          hError, hMessage, cardArg, cardValid,
          currentUser, isInitialized, listeners, aPc, authLog, owner, lPc, lRet, oPc, oOutcome,
          dKind, dImmediate, dWait, dNow, dTimeout, dPending, dCalls, dInvocations>>

apiVars == <<baseUrl, authToken, requestInterceptors, responseInterceptors>>
envVars == <<storageOk, localStorage, loaded, redirect>>
callVars == <<pc, options, url, initialConfig, config, response, parseAs, data, outcome,
              reqLog, fetchLog, okLog, errLog>>
retryVars == <<rPc, rMax, rDelay, rI, rCalls, rLog, rSleeps, rOutcome>>
pipelineVars == <<apiVars, envVars, callVars>>
cacheVars == <<cache, now, cRet, gPc, gKey, gCached, gOutcome, gWrote, parked>>
batchVars == <<bPc, bRequests, bStarted, bResults, bOrder, bOutcome>>
\* The argument and the result of each pure function followed.
functionVars == <<hError, hMessage, cardArg, cardValid>>
\* The static fields of App and the calls of its methods being followed.
appVars == <<currentUser, isInitialized, listeners, aPc, authLog, owner, lPc, lRet, oPc, oOutcome>>
\* A debounced function, its timer and the clock.
debounceVars == <<dKind, dImmediate, dWait, dNow, dTimeout, dPending, dCalls, dInvocations>>
\* What the methods of ApiClient besides the pipeline, and the pure functions, hold.
helperVars == <<retryVars, cacheVars, batchVars, functionVars, debounceVars>>
\* What the request pipeline does not touch.
outsidePipeline == <<retryVars, cacheVars, batchVars, functionVars, appVars, debounceVars>>
\* What the cache and getWithCache do not touch, the request pipeline apart.
besideCache == <<retryVars, batchVars, functionVars, appVars, debounceVars>>
\* What batchRequest does not touch.
outsideBatch == <<pipelineVars, retryVars, cacheVars, functionVars, appVars, debounceVars>>
\* What retryRequest does not touch.
outsideRetry == <<pipelineVars, cacheVars, batchVars, functionVars, appVars, debounceVars>>

-----------------------------------------------------------------------------
(* Bounds of the model *)

\* The longest list of request interceptors the model registers.
MaxRequestInterceptors == 2

\* The number of calls of App.init the model follows.
MaxInitCalls == 2
\* The longest list of response interceptors the model registers.
MaxResponseInterceptors == 2
\* The largest maxRetries the model passes to retryRequest.
MaxRetries == 4
\* The longest array of callables the model passes to batchRequest.
MaxBatch == 3
\* The longest card number the model enumerates character by character.
MaxCardLen == 3
\* The last millisecond of the clock of the debounced function.
MaxTime == 6
\* The number of calls of the debounced function the model follows.
MaxCalls == 4

-----------------------------------------------------------------------------
(* Values *)

Null == "null"
Undefined == "undefined"

\* The value undefined, where it stands among other values
UndefinedValue == [kind |-> "undefined"]

\* {...a, ...b}
Merge(a, b) ==
    [k \in (DOMAIN a) \cup (DOMAIN b) |-> IF k \in DOMAIN b THEN b[k] ELSE a[k]]

\* {} : the object without keys
EmptyObject == [k \in {} |-> Null]

\* obj with obj[key] = value assigned
Assign(obj, key, value) == Merge(obj, key :> value)

\* String.prototype.includes over fragment sequences
Includes(s, needle) ==
    \E i \in 0..(Len(s) - Len(needle)) :
        \A j \in 1..Len(needle) : s[i + j] = needle[j]

Tokens == {"t1"}
Users == {"u1"}

DefaultBaseUrl == <<"https://your-google-cloud-function-url.com/api">>
BaseUrls == {DefaultBaseUrl, <<"https://api.example.test">>}
Endpoints == {<<"/workouts">>}

defaultHeaders ==
    ("Content-Type" :> "application/json") @@ ("Accept" :> "application/json")

\* The options objects callers pass to request.
OptionsSet ==
    { EmptyObject,
      [headers |-> ("Accept" :> "text/plain")],
      [headers |-> ("X-Requested-With" :> "fetch")] }

\* The query parameters callers pass to get.
ParamsSet == { EmptyObject, [page |-> "2"] }

\* The payloads callers pass to post, put and patch: a plain object and a
\* FormData holding a file.
PlainData == [kind |-> "object", a |-> 1]
FormData == [kind |-> "formdata", file |-> "f1"]
DataSet == {PlainData, FormData}

\* The options objects callers pass to post (uploadFile passes { headers: {} }).
PostOptionsSet == { EmptyObject, [headers |-> EmptyObject] }

\* JSON.stringify(data); a FormData has no enumerable properties of its own
JsonStringify(d) ==
    IF d.kind = "undefined"
    THEN d
    ELSE [kind |-> "string",
          text |-> IF d.kind = "object" /\ "a" \in DOMAIN d THEN "{\"a\":1}" ELSE "{}"]

\* new URLSearchParams(params).toString()
QueryString(params) ==
    IF "page" \in DOMAIN params THEN <<"page=", params.page>> ELSE <<>>

\* obj after delete obj[key]
Delete(obj, key) == [k \in (DOMAIN obj) \ {key} |-> obj[k]]

\* Errors
UndefinedPropertyError == [kind |-> "error", name |-> "TypeError", origin |-> "property of undefined"]
ConstAssignError == [kind |-> "error", name |-> "TypeError", origin |-> "assignment to constant"]
StorageError == [kind |-> "error", name |-> "SecurityError", origin |-> "localStorage"]
FetchError == [kind |-> "error", name |-> "TypeError", origin |-> "fetch"]
JsonError == [kind |-> "error", name |-> "SyntaxError", origin |-> "json"]
HttpError(resp) == [kind |-> "error", name |-> "Error", origin |-> "onFulfilled", response |-> resp]

NoValue == [kind |-> "none"]
Resolved(v) == [kind |-> "resolved", value |-> v]
Rejected(e) == [kind |-> "rejected", value |-> e]

-----------------------------------------------------------------------------
(* The network: what fetch can resolve with *)

Statuses == {200, 204, 401, 500}

StatusText(status) ==
    CASE status = 200 -> "OK"
      [] status = 204 -> "No Content"
      [] status = 401 -> "Unauthorized"
      [] status = 500 -> "Internal Server Error"

\* Response.ok of the Fetch standard
ResponseOk(status) == status >= 200 /\ status <= 299

\* The header maps a response can carry: content-type absent, or one of these values.
HeaderMaps ==
    { EmptyObject,
      "content-type" :> <<"application/json">>,
      "content-type" :> <<"application/json", "; charset=utf-8">>,
      "content-type" :> <<"text/html">> }

Bodies == {"{\"m\":1}", "<h1>x</h1>"}

\* Body texts that are JSON texts
JsonTexts == {"{\"m\":1}"}

\* The Response objects fetch can resolve with.
Responses ==
    { [status |-> s, statusText |-> StatusText(s), headers |-> h, ok |-> ResponseOk(s), body |-> b] :
        s \in Statuses, h \in HeaderMaps, b \in Bodies }

\* response.headers.get(name): the value, or null when the header is absent
HeadersGet(headers, name) ==
    IF name \in DOMAIN headers
    THEN [kind |-> "string", value |-> headers[name]]
    ELSE [kind |-> "null"]

\* JavaScript truthiness of a string-or-null
Truthy(v) == v.kind = "string" /\ v.value # <<>>

\* response.json() and response.text(), as the settlement of the promise each returns
ReadJson(resp) ==
    IF resp.body \in JsonTexts
    THEN Resolved([kind |-> "json", parsedFrom |-> resp.body])
    ELSE Rejected(JsonError)
ReadText(resp) == Resolved([kind |-> "text", text |-> resp.body])

-----------------------------------------------------------------------------
(* Interceptors.  A registered function is named by what it does. *)

\* Request interceptors: "auth" is the one setupInterceptors registers (lines 28-33);
\* "traceA" and "traceB" are caller-supplied and return a new config with the
\* X-Trace header set to A, to B.
CallerRequestInterceptors == {"traceA", "traceB"}

\* "registrar" is a caller-supplied interceptor that calls
\* ApiClient.addRequestInterceptor(traceB) and returns the config it was
\* given; it registers while the list is shorter than MaxRequestInterceptors.
RegisteringRequestInterceptors == {"registrar"}

\* this.requestInterceptors after the call interceptor(config): line 50 run
\* from inside the interceptor
ListAfterCall(ic, list) ==
    IF ic \in RegisteringRequestInterceptors /\ Len(list) < MaxRequestInterceptors
    THEN Append(list, "traceB")
    ELSE list

\* interceptor(config): the returned config
CallRequestInterceptor(ic, cfg) ==
    CASE ic = "auth" ->
            IF authToken # Null
            THEN Assign(cfg, "headers", Assign(cfg.headers, "Authorization", <<"Bearer ", authToken>>))
            ELSE cfg
      [] ic = "traceA" -> Assign(cfg, "headers", Assign(cfg.headers, "X-Trace", "A"))
      [] ic = "traceB" -> Assign(cfg, "headers", Assign(cfg.headers, "X-Trace", "B"))
      [] ic = "registrar" -> cfg

\* Response interceptors are pairs {onFulfilled, onRejected}; Undefined is a
\* callback that was not given.
\*   onFulfilled: "identity"   (response) => response                 (line 37)
\*                "unwrap"     (response) => response.data
\*                "throwHttp"  throws an Error carrying the response unless response.ok
\*   onRejected:  "default401" the callback of lines 38-44
\*                "recover"    (error) => a fallback value
DefaultResponseInterceptor == [onFulfilled |-> "identity", onRejected |-> "default401"]

\* What callers register; a caller can also register a pair that does what the
\* default pair does.
CallerResponseInterceptors ==
    { DefaultResponseInterceptor,
      [onFulfilled |-> "identity", onRejected |-> Undefined],
      [onFulfilled |-> "unwrap", onRejected |-> "recover"],
      [onFulfilled |-> Undefined, onRejected |-> "recover"],
      [onFulfilled |-> "throwHttp", onRejected |-> Undefined],
      [onFulfilled |-> Undefined, onRejected |-> Undefined] }

-----------------------------------------------------------------------------
(* The state after the class definition has been evaluated: the static     *)
(* fields hold their initialisers (lines 4-9, 49, 55) and the top-level    *)
(* call ApiClient.init() of line 631 has not run yet.  localStorage is     *)
(* what earlier visits left behind.                                        *)

NoResponse == [kind |-> "none"]

IdleRetry ==
    /\ rPc = "idle"
    /\ rMax = 0
    /\ rDelay = 0
    /\ rI = 0
    /\ rCalls = 0
    /\ rLog = <<>>
    /\ rSleeps = <<>>
    /\ rOutcome = NoValue

IdleBatch ==
    /\ bPc = "idle"
    /\ bRequests = <<>>
    /\ bStarted = 0
    /\ bResults = <<>>
    /\ bOrder = <<>>
    /\ bOutcome = NoValue

\* No pure function has been called.
IdleFunctions ==
    /\ hError = NoValue
    /\ hMessage = NoValue
    /\ cardArg = <<>>
    /\ cardValid = NoValue

IdleCache ==
    /\ cache = EmptyObject
    /\ now = 0
    /\ cRet = NoValue
    /\ gPc = "idle"
    /\ gKey = <<>>
    /\ gCached = NoValue
    /\ gOutcome = NoValue
    /\ gWrote = FALSE
    /\ parked = NoValue

IdleCall ==
    /\ pc = "idle"
    /\ options = EmptyObject
    /\ url = <<>>
    /\ initialConfig = EmptyObject
    /\ config = EmptyObject
    /\ response = NoResponse
    /\ parseAs = Null
    /\ data = NoValue
    /\ outcome = NoValue
    /\ reqLog = <<>>
    /\ fetchLog = <<>>
    /\ okLog = <<>>
    /\ errLog = <<>>

\* part_000 lines 739-740: the static fields of App; no method of App has
\* been called.
IdleApp ==
    /\ currentUser = Null
    /\ isInitialized = FALSE
    /\ listeners = 0
    /\ aPc = [k \in 1..MaxInitCalls |-> "idle"]
    /\ authLog = NoValue
    /\ owner = "none"
    /\ lPc = "idle"
    /\ lRet = NoValue
    /\ oPc = "idle"
    /\ oOutcome = NoValue

InitClass ==
    /\ storageOk \in BOOLEAN
    /\ localStorage \in { [authToken |-> Null, user |-> Null] }
                         \cup [authToken : Tokens, user : Users]
    /\ loaded = FALSE
    /\ baseUrl = DefaultBaseUrl
    /\ authToken = Null
    /\ requestInterceptors = <<>>
    /\ responseInterceptors = <<>>
    /\ redirect = Null
    /\ IdleCall
    /\ IdleRetry
    /\ IdleCache
    /\ IdleBatch
    /\ IdleApp

\* No debounced function has been made.
IdleDebounce ==
    /\ dKind = Null
    /\ dImmediate = FALSE
    /\ dWait = 0
    /\ dNow = 0
    /\ dTimeout = Undefined
    /\ dPending = NoValue
    /\ dCalls = <<>>
    /\ dInvocations = <<>>

Init == InitClass /\ IdleFunctions /\ IdleDebounce

-----------------------------------------------------------------------------
(* Registration and configuration.  A settled call is handed to its caller  *)
(* in the same microtask run, so no other operation is followed between    *)
(* the settlement and requestReturns.                                      *)

\* setupInterceptors(): the two registrations of lines 28-33 and 36-45
setupInterceptors ==
    /\ requestInterceptors' = Append(requestInterceptors, "auth")
    /\ responseInterceptors' = Append(responseInterceptors, DefaultResponseInterceptor)

\* ApiClient.init().  Reading window.localStorage raises a SecurityError when
\* the browser denies the page access to storage; init then ends on line 14,
\* before setupInterceptors, and the class stays defined with empty lists.
init ==
    /\ pc # "settled"
    /\ ~loaded \/ ( /\ Len(requestInterceptors) < MaxRequestInterceptors
                    /\ Len(responseInterceptors) < MaxResponseInterceptors )
    /\ IF storageOk
       THEN /\ authToken' = localStorage.authToken
            /\ setupInterceptors
       ELSE UNCHANGED <<authToken, requestInterceptors, responseInterceptors>>
    /\ loaded' = TRUE
    /\ UNCHANGED <<storageOk, localStorage, baseUrl, redirect, callVars>>
    /\ UNCHANGED outsidePipeline

\* setBaseUrl(url); followed between calls only, request reads baseUrl on line 76 alone
setBaseUrl(u) ==
    /\ loaded
    /\ pc = "idle"
    /\ baseUrl' = u
    /\ UNCHANGED <<authToken, requestInterceptors, responseInterceptors, envVars, callVars>>
    /\ UNCHANGED outsidePipeline

\* addRequestInterceptor(interceptor); followed between calls only, request reads
\* the list on lines 84-86 alone, before its first await
addRequestInterceptor(interceptor) ==
    /\ loaded
    /\ pc = "idle"
    /\ Len(requestInterceptors) < MaxRequestInterceptors
    /\ requestInterceptors' = Append(requestInterceptors, interceptor)
    /\ UNCHANGED <<baseUrl, authToken, responseInterceptors, envVars, callVars>>
    /\ UNCHANGED outsidePipeline

addResponseInterceptor(onFulfilled, onRejected) ==
    /\ loaded
    /\ pc # "settled"
    /\ Len(responseInterceptors) < MaxResponseInterceptors
    /\ responseInterceptors' =
           Append(responseInterceptors, [onFulfilled |-> onFulfilled, onRejected |-> onRejected])
    /\ UNCHANGED <<baseUrl, authToken, requestInterceptors, envVars, callVars>>
    /\ UNCHANGED outsidePipeline

\* handleUnauthorized(), as the effect of a call made inside an action.  With
\* storage denied the call ends on line 63 with the token already cleared.
\* Whether a script defining AuthController is on the page is the environment's.
handleUnauthorized ==
    /\ authToken' = Null
    /\ IF storageOk
       THEN /\ localStorage' = [authToken |-> Null, user |-> Null]
            /\ redirect' \in {"AuthController.logout", "../index.html"}
       ELSE UNCHANGED <<localStorage, redirect>>

-----------------------------------------------------------------------------
(* ApiClient.request *)

\* How line 77 declares the binding that line 85 assigns to.
configDeclaration == "const"

\* Mutant of InitialConfig: the spread order reversed, the defaults win.
InitialConfigDefaultsWin(opts) ==
    Merge(opts, [method |-> "GET", headers |-> defaultHeaders])

\* lines 77-81: { method: 'GET', headers: { ...this.defaultHeaders }, ...options }
InitialConfig(opts) ==
    Merge([method |-> "GET", headers |-> defaultHeaders], opts)

\* line 76: `${this.baseUrl}${endpoint}`
ComposeUrl(base, endpoint) == base \o endpoint

\* Whether the interceptor changes the object it is given (the auth interceptor
\* assigns to config.headers of its argument) or builds a new one.
MutatesArgument(ic) == ic = "auth"

\* lines 84-86: for (const interceptor of this.requestInterceptors)
\*                  config = interceptor(config);
\* from position i on, with cfg the value bound to config and list the array
\* this.requestInterceptors, which the iterator reads anew for each position.
\* The call is evaluated first; the assignment then raises a TypeError when
\* the binding is a const, and the loop is left with the interceptor already
\* invoked.
RECURSIVE RunRequestInterceptors(_, _, _, _)
RunRequestInterceptors(cfg, i, log, list) ==
    IF i > Len(list)
    THEN [threw |-> FALSE, config |-> cfg, log |-> log, list |-> list]
    ELSE LET ic == list[i]
             ret == CallRequestInterceptor(ic, cfg)
             list2 == ListAfterCall(ic, list)
             log2 == Append(log, [index |-> i, interceptor |-> ic, arg |-> cfg, ret |-> ret])
         IN  IF configDeclaration = "const"
             THEN [threw |-> TRUE, error |-> ConstAssignError,
                   config |-> IF MutatesArgument(ic) THEN ret ELSE cfg, log |-> log2,
                   list |-> list2]
             ELSE RunRequestInterceptors(ret, i + 1, log2, list2)

\* Mutant of ParseStrategy: the content type must equal application/json.
ParseStrategyExact(contentType) ==
    IF Truthy(contentType) /\ contentType.value = <<"application/json">>
    THEN "json"
    ELSE "text"

\* lines 93-98: which reader the body is parsed with
ParseStrategy(contentType) ==
    IF Truthy(contentType) /\ Includes(contentType.value, <<"application/json">>)
    THEN "json"
    ELSE "text"

\* Mutant of Envelope: the success flag is computed as status === 200.
EnvelopeOkIs200(resp, d) ==
    [kind |-> "envelope", data |-> d, status |-> resp.status, statusText |-> resp.statusText,
     headers |-> resp.headers, ok |-> (resp.status = 200)]

\* lines 101-107: the response object
Envelope(resp, d) ==
    [kind |-> "envelope", data |-> d, status |-> resp.status, statusText |-> resp.statusText,
     headers |-> resp.headers, ok |-> resp.ok]

\* Mutant of FirstWith: the last interceptor whose callback is given wins.
RECURSIVE LastWith(_, _, _)
LastWith(list, field, i) ==
    IF i > Len(list) THEN 0
    ELSE LET later == LastWith(list, field, i + 1) IN
         IF later # 0 THEN later
         ELSE IF list[i][field] # Undefined THEN i ELSE 0

\* lines 110-114 and 120-124: the position of the first interceptor, from i on,
\* whose callback `field` is given; 0 when there is none.
RECURSIVE FirstWith(_, _, _)
FirstWith(list, field, i) ==
    IF i > Len(list) THEN 0
    ELSE IF list[i][field] # Undefined THEN i
    ELSE FirstWith(list, field, i + 1)

\* interceptor.onFulfilled(responseObj): the value returned, or the value thrown
CallOnFulfilled(cb, responseObj) ==
    CASE cb = "identity" -> [threw |-> FALSE, value |-> responseObj]
      [] cb = "unwrap" -> [threw |-> FALSE, value |-> responseObj.data]
      [] cb = "throwHttp" ->
            IF responseObj.ok
            THEN [threw |-> FALSE, value |-> responseObj]
            ELSE [threw |-> TRUE, value |-> HttpError(responseObj)]

\* error.response?.status === 401
IsUnauthorized(error) ==
    "response" \in DOMAIN error /\ error.response.status = 401

\* interceptor.onRejected(error), as the settlement of `return interceptor.onRejected(error)`
CallOnRejected(cb, error) ==
    CASE cb = "recover" -> Resolved([kind |-> "fallback", error |-> error])
      [] cb = "default401" ->
            IF IsUnauthorized(error) /\ ~storageOk
            THEN Rejected(StorageError)
            ELSE Rejected(error)

\* Mutant of Catch: the catch block rethrows without consulting the interceptors.
CatchRethrow(error) ==
    /\ errLog' = <<>>
    /\ outcome' = Rejected(error)
    /\ UNCHANGED <<authToken, localStorage, redirect>>

\* lines 118-126: the catch block of request
Catch(error) ==
    LET i == FirstWith(responseInterceptors, "onRejected", 1) IN
    IF i = 0
    THEN /\ errLog' = <<>>
         /\ outcome' = Rejected(error)
         /\ UNCHANGED <<authToken, localStorage, redirect>>
    ELSE LET cb == responseInterceptors[i].onRejected IN
         /\ errLog' = <<[index |-> i, error |-> error]>>
         /\ outcome' = CallOnRejected(cb, error)
         /\ IF cb = "default401" /\ IsUnauthorized(error)
            THEN handleUnauthorized
            ELSE UNCHANGED <<authToken, localStorage, redirect>>

\* request(endpoint, options) up to its first await: lines 76-89, as the
\* effect of a call on the pipeline, which follows this call from now on
requestCall(endpoint, opts) ==
    /\ LET run == RunRequestInterceptors(InitialConfig(opts), 1, <<>>, requestInterceptors) IN
       /\ options' = opts
       /\ requestInterceptors' = run.list
       /\ url' = ComposeUrl(baseUrl, endpoint)
       /\ initialConfig' = InitialConfig(opts)
       /\ config' = run.config
       /\ reqLog' = run.log
       /\ IF run.threw
          THEN /\ pc' = "settled"
               /\ outcome' = Rejected(run.error)
               /\ fetchLog' = <<>>
          ELSE /\ pc' = "fetching"
               /\ outcome' = NoValue
               /\ fetchLog' = <<[url |-> ComposeUrl(baseUrl, endpoint), config |-> run.config]>>
    /\ response' = NoResponse
    /\ parseAs' = Null
    /\ data' = NoValue
    /\ okLog' = <<>>
    /\ errLog' = <<>>
    /\ UNCHANGED <<baseUrl, authToken, responseInterceptors, envVars>>

\* The same, for a call made while no other call is followed
requestSteps(endpoint, opts) ==
    /\ loaded
    /\ pc = "idle"
    /\ requestCall(endpoint, opts)

\* A call of request(endpoint, options) made by code outside the class
request(endpoint, opts) ==
    /\ requestSteps(endpoint, opts)
    /\ UNCHANGED outsidePipeline

\* get(endpoint, params): lines 130-137, as the effect of a call on the pipeline
getCall(endpoint, params) ==
    LET queryString == QueryString(params) IN
    requestCall(IF queryString # <<>> THEN endpoint \o <<"?">> \o queryString ELSE endpoint,
                [method |-> "GET"])

\* The same, for a call made while no other call is followed
getSteps(endpoint, params) ==
    LET queryString == QueryString(params) IN
    requestSteps(IF queryString # <<>> THEN endpoint \o <<"?">> \o queryString ELSE endpoint,
                 [method |-> "GET"])

\* A call of get(endpoint, params) made by code outside the class
get(endpoint, params) ==
    /\ getSteps(endpoint, params)
    /\ UNCHANGED outsidePipeline

\* post(endpoint, data, options): lines 140-154.  With a FormData and options
\* without headers, line 149 reads a property of undefined: post rejects with a
\* TypeError and request is not called.
postCall(endpoint, d, opts) ==
    LET cfg == Merge([method |-> "POST", body |-> JsonStringify(d)], opts) IN
    IF d.kind = "formdata"
    THEN IF "headers" \in DOMAIN cfg
         THEN requestCall(endpoint,
                          Assign(Assign(cfg, "headers", Delete(cfg.headers, "Content-Type")), "body", d))
         ELSE /\ pc' = "settled"
              /\ outcome' = Rejected(UndefinedPropertyError)
              /\ options' = EmptyObject
              /\ url' = <<>>
              /\ initialConfig' = EmptyObject
              /\ config' = EmptyObject
              /\ response' = NoResponse
              /\ parseAs' = Null
              /\ data' = NoValue
              /\ reqLog' = <<>>
              /\ fetchLog' = <<>>
              /\ okLog' = <<>>
              /\ errLog' = <<>>
              /\ UNCHANGED <<apiVars, envVars>>
    ELSE requestCall(endpoint, cfg)

\* A call of post(endpoint, data, options) made by code outside the class
post(endpoint, d, opts) ==
    /\ loaded
    /\ pc = "idle"
    /\ postCall(endpoint, d, opts)
    /\ UNCHANGED outsidePipeline

\* put(endpoint, data, options): lines 157-163
put(endpoint, d, opts) ==
    request(endpoint, Merge([method |-> "PUT", body |-> JsonStringify(d)], opts))

\* patch(endpoint, data, options): lines 166-172
patch(endpoint, d, opts) ==
    request(endpoint, Merge([method |-> "PATCH", body |-> JsonStringify(d)], opts))

\* delete(endpoint, options): lines 175-180
delete(endpoint, opts) ==
    request(endpoint, Merge([method |-> "DELETE"], opts))

\* The files and the additional fields callers pass to uploadFile.
Files == {"f1"}
AdditionalDataSet == { EmptyObject, [caption |-> "c"] }

\* lines 184-190: the FormData holding the file and the additional fields
NewFormData(file, additionalData) ==
    [kind |-> "formdata", file |-> file, fields |-> additionalData]

\* uploadFile(endpoint, file, additionalData): lines 183-197
uploadFile(endpoint, file, additionalData) ==
    post(endpoint, NewFormData(file, additionalData), [headers |-> EmptyObject])

\* await fetch(url, config) resolves with a response: lines 89-98 up to the
\* await of the body reader
fetchResolves(resp) ==
    /\ pc = "fetching"
    /\ response' = resp
    /\ parseAs' = ParseStrategy(HeadersGet(resp.headers, "content-type"))
    /\ pc' = "parsing"
    /\ UNCHANGED <<options, url, initialConfig, config, data, outcome, reqLog, fetchLog, okLog, errLog,
                   apiVars, envVars>>
    /\ UNCHANGED outsidePipeline

\* Mutant of fetchRejects: the call is issued once more after a transport failure.
fetchRejectsAndRetries ==
    /\ pc = "fetching"
    /\ Len(fetchLog) < 2
    /\ fetchLog' = Append(fetchLog, [url |-> url, config |-> config])
    /\ UNCHANGED <<pc, options, url, initialConfig, config, response, parseAs, data, outcome,
                   reqLog, okLog, errLog, apiVars, envVars>>
    /\ UNCHANGED outsidePipeline

\* await fetch(url, config) rejects (no response received): the catch block
fetchRejects ==
    /\ pc = "fetching"
    /\ Catch(FetchError)
    /\ pc' = "settled"
    /\ okLog' = <<>>
    /\ UNCHANGED <<options, url, initialConfig, config, response, parseAs, data, reqLog, fetchLog,
                   baseUrl, requestInterceptors, responseInterceptors, storageOk, loaded>>
    /\ UNCHANGED outsidePipeline

\* Mutant of Deliver: a response outside the 2xx class is turned into an error
\* carrying the response and handed to the catch block.
DeliverRejectingHttpErrors(responseObj) ==
    IF responseObj.ok
    THEN /\ okLog' = <<>>
         /\ errLog' = <<>>
         /\ outcome' = Resolved(responseObj)
         /\ UNCHANGED <<authToken, localStorage, redirect>>
    ELSE /\ okLog' = <<>>
         /\ Catch(HttpError(responseObj))

\* lines 109-116: the response interceptors applied to the response object
Deliver(responseObj) ==
    LET i == FirstWith(responseInterceptors, "onFulfilled", 1) IN
    IF i = 0
    THEN /\ okLog' = <<>>
         /\ errLog' = <<>>
         /\ outcome' = Resolved(responseObj)
         /\ UNCHANGED <<authToken, localStorage, redirect>>
    ELSE LET r == CallOnFulfilled(responseInterceptors[i].onFulfilled, responseObj) IN
         /\ okLog' = <<[index |-> i, arg |-> responseObj]>>
         /\ IF r.threw
            THEN Catch(r.value)
            ELSE /\ errLog' = <<>>
                 /\ outcome' = Resolved(r.value)
                 /\ UNCHANGED <<authToken, localStorage, redirect>>

\* await response.json() / response.text() settles: lines 95-126
bodySettles ==
    /\ pc = "parsing"
    /\ pc' = "settled"
    /\ LET read == IF parseAs = "json" THEN ReadJson(response) ELSE ReadText(response) IN
       IF read.kind = "rejected"
       THEN /\ data' = NoValue
            /\ okLog' = <<>>
            /\ Catch(read.value)
       ELSE /\ data' = read.value
            /\ Deliver(Envelope(response, read.value))
    /\ UNCHANGED <<options, url, initialConfig, config, response, parseAs, reqLog, fetchLog,
                   baseUrl, requestInterceptors, responseInterceptors, storageOk, loaded>>
    /\ UNCHANGED outsidePipeline

\* The settlement of the call being followed is taken by the code awaiting it.
callTaken ==
    /\ pc' = "idle"
    /\ options' = EmptyObject
    /\ url' = <<>>
    /\ initialConfig' = EmptyObject
    /\ config' = EmptyObject
    /\ response' = NoResponse
    /\ parseAs' = Null
    /\ data' = NoValue
    /\ outcome' = NoValue
    /\ reqLog' = <<>>
    /\ fetchLog' = <<>>
    /\ okLog' = <<>>
    /\ errLog' = <<>>

\* The caller has taken the settlement of the promise; the next call can be followed.
requestReturns ==
    /\ pc = "settled"
    /\ callTaken
    /\ UNCHANGED <<apiVars, envVars>>
    /\ UNCHANGED outsidePipeline

-----------------------------------------------------------------------------
(* ApiClient.retryRequest(requestFn, maxRetries = 3, delay = 1000).        *)
(* requestFn is any callable: how each invocation of it settles is the     *)
(* environment's choice.                                                   *)

\* The default of the parameter delay, line 567
DefaultDelay == 1000

RetryCounts == (-1)..MaxRetries
Delays == {10, DefaultDelay}
FnValues == {[kind |-> "value", name |-> "v1"], [kind |-> "value", name |-> "v2"]}
FnErrors == {[kind |-> "error", name |-> "e1"], [kind |-> "error", name |-> "e2"]}

\* Math.pow(2, i)
RECURSIVE Pow2(_)
Pow2(i) == IF i <= 0 THEN 1 ELSE 2 * Pow2(i - 1)

\* Mutant of Backoff: the same wait before every attempt.
BackoffConstant(delay, i) == delay

\* line 575: the timeout set before the next attempt
Backoff(delay, i) == delay * Pow2(i)

\* line 572: the attempt that failed was the last one
LastAttempt(i, maxRetries) == i = maxRetries - 1

\* line 568: the loop condition
LoopContinues(i, maxRetries) == i < maxRetries

\* retryRequest(requestFn, maxRetries, delay) up to its first await: lines 567-570.
\* When the loop body is not entered the function ends without a return.
retryRequest(maxRetries, delay) ==
    /\ rPc = "idle"
    /\ rMax' = maxRetries
    /\ rDelay' = delay
    /\ rI' = 0
    /\ IF LoopContinues(0, maxRetries)
       THEN /\ rPc' = "awaiting"
            /\ rCalls' = rCalls + 1
            /\ rOutcome' = NoValue
       ELSE /\ rPc' = "settled"
            /\ rCalls' = rCalls
            /\ rOutcome' = Resolved(UndefinedValue)
    /\ UNCHANGED <<rLog, rSleeps, outsideRetry>>

\* Mutant of requestFnResolves: the value of requestFn is awaited but not returned.
requestFnResolvesDropped(v) ==
    /\ rPc = "awaiting"
    /\ rLog' = Append(rLog, Resolved(v))
    /\ rPc' = "settled"
    /\ rOutcome' = Resolved(UndefinedValue)
    /\ UNCHANGED <<rMax, rDelay, rI, rCalls, rSleeps, outsideRetry>>

\* await requestFn() resolves with v: line 570
requestFnResolves(v) ==
    /\ rPc = "awaiting"
    /\ rLog' = Append(rLog, Resolved(v))
    /\ rPc' = "settled"
    /\ rOutcome' = Resolved(v)
    /\ UNCHANGED <<rMax, rDelay, rI, rCalls, rSleeps, outsideRetry>>

\* Mutant of requestFnRejects: the error rethrown at the end is the first one caught.
requestFnRejectsFirstError(e) ==
    /\ rPc = "awaiting"
    /\ rLog' = Append(rLog, Rejected(e))
    /\ IF LastAttempt(rI, rMax)
       THEN /\ rPc' = "settled"
            /\ rOutcome' = rLog'[1]
            /\ UNCHANGED rSleeps
       ELSE /\ rPc' = "sleeping"
            /\ rSleeps' = Append(rSleeps, Backoff(rDelay, rI))
            /\ UNCHANGED rOutcome
    /\ UNCHANGED <<rMax, rDelay, rI, rCalls, outsideRetry>>

\* await requestFn() rejects with e, or requestFn throws e: lines 571-575
requestFnRejects(e) ==
    /\ rPc = "awaiting"
    /\ rLog' = Append(rLog, Rejected(e))
    /\ IF LastAttempt(rI, rMax)
       THEN /\ rPc' = "settled"
            /\ rOutcome' = Rejected(e)
            /\ UNCHANGED rSleeps
       ELSE /\ rPc' = "sleeping"
            /\ rSleeps' = Append(rSleeps, Backoff(rDelay, rI))
            /\ UNCHANGED rOutcome
    /\ UNCHANGED <<rMax, rDelay, rI, rCalls, outsideRetry>>

\* The timeout of line 575 fires: i++, the loop condition, the next attempt
timerFires ==
    /\ rPc = "sleeping"
    /\ rI' = rI + 1
    /\ IF LoopContinues(rI + 1, rMax)
       THEN /\ rPc' = "awaiting"
            /\ rCalls' = rCalls + 1
            /\ UNCHANGED rOutcome
       ELSE /\ rPc' = "settled"
            /\ rCalls' = rCalls
            /\ rOutcome' = Resolved(UndefinedValue)
    /\ UNCHANGED <<rMax, rDelay, rLog, rSleeps, outsideRetry>>

\* The caller has taken the settlement of the promise; the next call can be followed.
retryReturns ==
    /\ rPc = "settled"
    /\ rPc' = "idle"
    /\ rMax' = 0
    /\ rDelay' = 0
    /\ rI' = 0
    /\ rCalls' = 0
    /\ rLog' = <<>>
    /\ rSleeps' = <<>>
    /\ rOutcome' = NoValue
    /\ UNCHANGED outsideRetry

-----------------------------------------------------------------------------
(* The TTL cache (lines 587-612) and getWithCache (lines 615-627).  Time   *)
(* passes between the run-to-completion segments; a settled call is handed *)
(* to its caller before anything else runs.                                *)

\* static cacheTimeout, line 588
cacheTimeout == 5 * 60 * 1000

\* The values of Date.now() at which the model looks at the clock: the two
\* sides of the boundary of each timeout in use.
Instants == {0, 1, cacheTimeout, cacheTimeout + 1}

\* The timeout arguments callers pass to setCache.
Timeouts == {1}

NullValue == [kind |-> "null"]

\* The cacheKey arguments callers pass to getWithCache: none, a key, the empty string.
CacheKeyArgs ==
    { NullValue, [kind |-> "string", value |-> <<"k1">>], [kind |-> "string", value |-> <<>>] }

\* JSON.stringify(params) on line 616
StringifyParams(params) ==
    IF "page" \in DOMAIN params THEN <<"{\"page\":\"", params.page, "\"}">> ELSE <<"{}">>

\* line 616: cacheKey || `${endpoint}${JSON.stringify(params)}`
KeyOf(endpoint, params, cacheKey) ==
    IF Truthy(cacheKey) THEN cacheKey.value ELSE endpoint \o StringifyParams(params)

\* The keys callers pass to setCache and getCache.
CacheKeys == { <<"k1">>, KeyOf(<<"/workouts">>, EmptyObject, NullValue) }

\* The values callers pass to setCache.
CacheData == { [kind |-> "text", text |-> "v"] }

\* The Response objects fetch resolves with while getWithCache is followed.
CachedResponses ==
    { [status |-> r[1], statusText |-> StatusText(r[1]), headers |-> r[2], ok |-> ResponseOk(r[1]),
       body |-> r[3]] :
        r \in { <<200, "content-type" :> <<"application/json">>, "{\"m\":1}">>,
                <<500, "content-type" :> <<"application/json">>, "{\"m\":1}">>,
                <<500, "content-type" :> <<"application/json">>, "">>,
                <<204, EmptyObject, "">> } }

\* JavaScript truthiness of a cached value: an object is truthy, a string is
\* unless it is empty, null and undefined are not
ValueTruthy(v) ==
    CASE v.kind = "text" -> v.text # ""
      [] v.kind \in {"null", "undefined"} -> FALSE
      [] OTHER -> TRUE

\* response.data on line 624: the property of whatever get resolved with
DataOf(v) == IF "data" \in DOMAIN v THEN v.data ELSE UndefinedValue

\* Mutant of Expired: an entry exactly timeout old counts as expired.
ExpiredAtBoundary(entry, t) == t - entry.timestamp >= entry.timeout

\* line 601: Date.now() - cached.timestamp > cached.timeout
Expired(entry, t) == t - entry.timestamp > entry.timeout

\* lines 590-596: the cache after this.cache.set(key, {data, timestamp, timeout})
CacheSet(c, key, d, timeout, t) ==
    [k \in (DOMAIN c) \cup {key} |->
        IF k = key THEN [data |-> d, timestamp |-> t, timeout |-> timeout] ELSE c[k]]

\* Mutant of CacheGet: a read sweeps every expired entry out of the cache.
CacheGetSweeping(c, key, t) ==
    LET kept == [k \in {j \in DOMAIN c : ~Expired(c[j], t)} |-> c[k]] IN
    [value |-> IF key \in DOMAIN kept THEN kept[key].data ELSE NullValue, cache |-> kept]

\* lines 598-608: what getCache(key) returns, and the cache it leaves
CacheGet(c, key, t) ==
    IF key \notin DOMAIN c
    THEN [value |-> NullValue, cache |-> c]
    ELSE IF Expired(c[key], t)
         THEN [value |-> NullValue, cache |-> Delete(c, key)]
         ELSE [value |-> c[key].data, cache |-> c]

\* No call is between its return, or its settlement, and its caller.
Quiescent == loaded /\ pc # "settled" /\ gPc # "settled" /\ cRet = NoValue

\* Time passes until the clock shows t.
tick(t) ==
    /\ Quiescent
    /\ t > now
    /\ now' = t
    /\ UNCHANGED <<cache, cRet, gPc, gKey, gCached, gOutcome, gWrote, parked, pipelineVars, besideCache>>

\* setCache(key, data, timeout): lines 590-596
setCache(key, d, timeout) ==
    /\ Quiescent
    /\ cache' = CacheSet(cache, key, d, timeout, now)
    /\ UNCHANGED <<now, cRet, gPc, gKey, gCached, gOutcome, gWrote, parked, pipelineVars, besideCache>>

\* getCache(key): lines 598-608
getCache(key) ==
    /\ Quiescent
    /\ LET read == CacheGet(cache, key, now) IN
       /\ cache' = read.cache
       /\ cRet' = [kind |-> "returned", key |-> key, value |-> read.value]
    /\ UNCHANGED <<now, gPc, gKey, gCached, gOutcome, gWrote, parked, pipelineVars, besideCache>>

\* The caller has taken the value getCache returned.
getCacheReturns ==
    /\ cRet # NoValue
    /\ cRet' = NoValue
    /\ UNCHANGED <<cache, now, gPc, gKey, gCached, gOutcome, gWrote, parked, pipelineVars, besideCache>>

\* clearCache(): lines 610-612
clearCache ==
    /\ Quiescent
    /\ cache' = EmptyObject
    /\ UNCHANGED <<now, cRet, gPc, gKey, gCached, gOutcome, gWrote, parked, pipelineVars, besideCache>>

\* getWithCache(endpoint, params, cacheKey) up to its return or its await:
\* lines 615-623, with the calls of getCache and of get
getWithCache(endpoint, params, cacheKey) ==
    /\ Quiescent
    /\ gPc = "idle"
    /\ pc = "idle"
    /\ LET key == KeyOf(endpoint, params, cacheKey)
           read == CacheGet(cache, key, now) IN
       /\ gKey' = key
       /\ gCached' = read.value
       /\ cache' = read.cache
       /\ IF ValueTruthy(read.value)
          THEN /\ gPc' = "settled"
               /\ gOutcome' = Resolved([kind |-> "hit", data |-> read.value, fromCache |-> TRUE])
               /\ UNCHANGED pipelineVars
          ELSE /\ gPc' = "awaiting"
               /\ gOutcome' = NoValue
               /\ getSteps(endpoint, params)
    /\ gWrote' = FALSE
    /\ UNCHANGED <<now, cRet, parked, besideCache>>

\* Mutant of getWithCacheResumes: an entry already present is not replaced.
getWithCacheResumesKeepingFirst ==
    /\ gPc = "awaiting"
    /\ pc = "settled"
    /\ gPc' = "settled"
    /\ gOutcome' = outcome
    /\ cache' = IF outcome.kind = "resolved" /\ gKey \notin DOMAIN cache
                THEN CacheSet(cache, gKey, DataOf(outcome.value), cacheTimeout, now)
                ELSE cache
    /\ gWrote' = (outcome.kind = "resolved" /\ gKey \notin DOMAIN cache)
    /\ UNCHANGED <<now, cRet, gKey, gCached, parked, pipelineVars, besideCache>>

\* await this.get(endpoint, params) settles: lines 623-626.  A rejection ends
\* getWithCache before setCache.
getWithCacheResumes ==
    /\ gPc = "awaiting"
    /\ pc = "settled"
    /\ gPc' = "settled"
    /\ gOutcome' = outcome
    /\ cache' = IF outcome.kind = "resolved"
                THEN CacheSet(cache, gKey, DataOf(outcome.value), cacheTimeout, now)
                ELSE cache
    /\ gWrote' = (outcome.kind = "resolved")
    /\ UNCHANGED <<now, cRet, gKey, gCached, parked, pipelineVars, besideCache>>

\* The caller has taken the settlement of the promise; the next call can be followed.
getWithCacheReturns ==
    /\ gPc = "settled"
    /\ gPc' = "idle"
    /\ gKey' = <<>>
    /\ gCached' = NoValue
    /\ gOutcome' = NoValue
    /\ gWrote' = FALSE
    /\ UNCHANGED <<cache, now, cRet, parked, pipelineVars, besideCache>>

\* The call of getWithCache being followed, with the call of request it awaits.
FollowedCall ==
    [pc |-> pc, options |-> options, url |-> url, initialConfig |-> initialConfig,
     config |-> config, response |-> response, parseAs |-> parseAs, data |-> data,
     outcome |-> outcome, reqLog |-> reqLog, fetchLog |-> fetchLog, okLog |-> okLog,
     errLog |-> errLog, gPc |-> gPc, gKey |-> gKey, gCached |-> gCached,
     gOutcome |-> gOutcome, gWrote |-> gWrote]

\* A call that has not been made.
NoCall ==
    [pc |-> "idle", options |-> EmptyObject, url |-> <<>>, initialConfig |-> EmptyObject,
     config |-> EmptyObject, response |-> NoResponse, parseAs |-> Null, data |-> NoValue,
     outcome |-> NoValue, reqLog |-> <<>>, fetchLog |-> <<>>, okLog |-> <<>>,
     errLog |-> <<>>, gPc |-> "idle", gKey |-> <<>>, gCached |-> NoValue,
     gOutcome |-> NoValue, gWrote |-> FALSE]

\* The call being followed is suspended at the await of fetch or of the body
\* reader (lines 89-98), inside the await of line 623.
Suspended == gPc = "awaiting" /\ pc \in {"fetching", "parsing"}

\* The event loop turns to the other call of getWithCache in progress, or is
\* free for a new call while the call followed so far is suspended.  Calls
\* share the class state and nothing else.
followOther ==
    /\ loaded
    /\ \/ Suspended
       \/ parked # NoValue /\ gPc = "settled"
       \/ parked # NoValue /\ gPc = "idle" /\ pc = "idle"
    /\ LET other == IF parked = NoValue THEN NoCall ELSE parked IN
       /\ pc' = other.pc
       /\ options' = other.options
       /\ url' = other.url
       /\ initialConfig' = other.initialConfig
       /\ config' = other.config
       /\ response' = other.response
       /\ parseAs' = other.parseAs
       /\ data' = other.data
       /\ outcome' = other.outcome
       /\ reqLog' = other.reqLog
       /\ fetchLog' = other.fetchLog
       /\ okLog' = other.okLog
       /\ errLog' = other.errLog
       /\ gPc' = other.gPc
       /\ gKey' = other.gKey
       /\ gCached' = other.gCached
       /\ gOutcome' = other.gOutcome
       /\ gWrote' = other.gWrote
    /\ parked' = IF gPc = "idle" THEN NoValue ELSE FollowedCall
    /\ UNCHANGED <<cache, now, cRet, apiVars, envVars, besideCache>>

-----------------------------------------------------------------------------
(* ApiClient.batchRequest(requests): lines 581-584.  A callable is named   *)
(* by what it does when invoked: it returns a promise that is fulfilled    *)
(* later, returns a promise that is rejected later, or throws.             *)

Callables == {"resolves", "rejects", "throws"}

\* The arrays callers pass to batchRequest.
BatchArgs == UNION { [1..n -> Callables] : n \in 0..MaxBatch }

\* What the callable at position i produces.
ValueOf(i) == [kind |-> "value", name |-> "v", of |-> i]
ErrorOf(i) == [kind |-> "error", name |-> "e", of |-> i]

\* requests.map(request => request()) on line 582: the position of the first
\* callable that throws, from i on; 0 when none does.
RECURSIVE FirstThrow(_, _)
FirstThrow(requests, i) ==
    IF i > Len(requests) THEN 0
    ELSE IF requests[i] = "throws" THEN i
    ELSE FirstThrow(requests, i + 1)

\* The object Promise.allSettled reports for a settled promise.
SettledResult(settlement) ==
    IF settlement.kind = "resolved"
    THEN [status |-> "fulfilled", value |-> settlement.value]
    ELSE [status |-> "rejected", reason |-> settlement.value]

\* The array Promise.allSettled resolves with.
AllSettled(results) ==
    [kind |-> "array", items |-> [i \in 1..Len(results) |-> SettledResult(results[i])]]

\* batchRequest(requests) up to its return: lines 581-584.  map invokes the
\* callables in order; an exception thrown by one ends map and the function.
batchRequest(requests) ==
    /\ bPc = "idle"
    /\ bRequests' = requests
    /\ bOrder' = <<>>
    /\ LET t == FirstThrow(requests, 1) IN
       IF t # 0
       THEN /\ bStarted' = t
            /\ bResults' = <<>>
            /\ bPc' = "settled"
            /\ bOutcome' = Rejected(ErrorOf(t))
       ELSE /\ bStarted' = Len(requests)
            /\ bResults' = [i \in 1..Len(requests) |-> NoValue]
            /\ IF requests = <<>>
               THEN bPc' = "settled" /\ bOutcome' = Resolved(AllSettled(<<>>))
               ELSE bPc' = "waiting" /\ bOutcome' = NoValue
    /\ UNCHANGED outsideBatch

\* Mutant of promiseSettles: the results are reported in the order of settlement.
promiseSettlesInArrivalOrder(i) ==
    /\ bPc = "waiting"
    /\ i \in 1..Len(bResults)
    /\ bResults[i] = NoValue
    /\ bOrder' = Append(bOrder, i)
    /\ bResults' = [bResults EXCEPT ![i] =
                       IF bRequests[i] = "resolves" THEN Resolved(ValueOf(i)) ELSE Rejected(ErrorOf(i))]
    /\ IF \A j \in 1..Len(bResults') : bResults'[j] # NoValue
       THEN /\ bPc' = "settled"
            /\ bOutcome' = Resolved(AllSettled([j \in 1..Len(bOrder') |-> bResults'[bOrder'[j]]]))
       ELSE UNCHANGED <<bPc, bOutcome>>
    /\ UNCHANGED <<bRequests, bStarted, outsideBatch>>

\* The promise the callable at position i returned settles; when it is the
\* last one, the promise of Promise.allSettled resolves (line 583).
promiseSettles(i) ==
    /\ bPc = "waiting"
    /\ i \in 1..Len(bResults)
    /\ bResults[i] = NoValue
    /\ bOrder' = Append(bOrder, i)
    /\ bResults' = [bResults EXCEPT ![i] =
                       IF bRequests[i] = "resolves" THEN Resolved(ValueOf(i)) ELSE Rejected(ErrorOf(i))]
    /\ IF \A j \in 1..Len(bResults') : bResults'[j] # NoValue
       THEN /\ bPc' = "settled"
            /\ bOutcome' = Resolved(AllSettled(bResults'))
       ELSE UNCHANGED <<bPc, bOutcome>>
    /\ UNCHANGED <<bRequests, bStarted, outsideBatch>>

\* The caller has taken the settlement of the promise; the next call can be followed.
batchReturns ==
    /\ bPc = "settled"
    /\ bPc' = "idle"
    /\ bRequests' = <<>>
    /\ bStarted' = 0
    /\ bResults' = <<>>
    /\ bOrder' = <<>>
    /\ bOutcome' = NoValue
    /\ UNCHANGED outsideBatch

-----------------------------------------------------------------------------
(* ApiClient.handleError(error): lines 517-564.  A message is a sequence   *)
(* of string fragments; the empty string is the empty sequence.            *)

\* The statuses an attached response can carry: every case label of the
\* switch, and two statuses without a label.
ErrorStatuses == {400, 401, 403, 404, 422, 429, 500, 502, 503, 504, 418, 409}

\* The values of error.response.data: an object with a message, with an empty
\* message, without one; a text body; a JSON body that is null.
ErrorData ==
    { [kind |-> "object", message |-> <<"quota exceeded">>],
      [kind |-> "object", message |-> <<>>],
      [kind |-> "object"],
      [kind |-> "text", text |-> "<h1>x</h1>"],
      NullValue }

\* The values of error.message
ErrorMessages == { UndefinedValue,
                   [kind |-> "string", value |-> <<>>],
                   [kind |-> "string", value |-> <<"Failed to fetch">>] }

\* The errors callers pass to handleError.
ErrorArgs ==
    [ kind : {"error"},
      response : {UndefinedValue} \cup [status : ErrorStatuses, data : ErrorData],
      request : BOOLEAN,
      message : ErrorMessages ]

Returned(v) == [kind |-> "returned", value |-> [kind |-> "string", value |-> v]]
Threw(e) == [kind |-> "threw", value |-> e]

\* line 520
DefaultMessage == <<"An unexpected error occurred">>

\* data.message || fallback (lines 528, 540, 554); reading a property of null
\* or undefined throws
MessageOr(d, fallback) ==
    IF d.kind \in {"null", "undefined"}
    THEN Threw(UndefinedPropertyError)
    ELSE IF "message" \in DOMAIN d /\ d.message # <<>>
         THEN Returned(d.message)
         ELSE Returned(fallback)

\* handleError(error): what the call returns, or throws
HandleError(error) ==
    IF error.response # UndefinedValue
    THEN LET status == error.response.status
             d == error.response.data IN
         CASE status = 400 -> MessageOr(d, <<"Bad request">>)
           [] status = 401 -> Returned(<<"Unauthorized access">>)
           [] status = 403 -> Returned(<<"Access forbidden">>)
           [] status = 404 -> Returned(<<"Resource not found">>)
           [] status = 422 -> MessageOr(d, <<"Validation error">>)
           [] status = 429 -> Returned(<<"Too many requests. Please try again later.">>)
           [] status = 500 -> Returned(<<"Internal server error">>)
           [] status \in {502, 503, 504} -> Returned(<<"Service temporarily unavailable">>)
           [] OTHER -> MessageOr(d, <<"Error ", ToString(status)>>)
    ELSE IF error.request
    THEN Returned(<<"Network error. Please check your connection.">>)
    ELSE Returned(IF Truthy(error.message) THEN error.message.value ELSE DefaultMessage)

\* The class is loaded and handleError is about to be called with an error.
InitHandleError ==
    /\ InitClass
    /\ hError \in ErrorArgs
    /\ hMessage = NoValue
    /\ cardArg = <<>>
    /\ cardValid = NoValue
    /\ IdleDebounce

\* The call handleError(hError)
handleError ==
    /\ hMessage = NoValue
    /\ hMessage' = HandleError(hError)
    /\ UNCHANGED <<hError, cardArg, cardValid, pipelineVars, retryVars, cacheVars, batchVars, appVars,
                   debounceVars>>

-----------------------------------------------------------------------------
(* Utils.isValidCreditCard(cardNumber): part_000 lines 323-344.  A card    *)
(* number is a sequence of one-character strings.                          *)

\* parseInt of a decimal digit
DigitValue ==
    ("0" :> 0) @@ ("1" :> 1) @@ ("2" :> 2) @@ ("3" :> 3) @@ ("4" :> 4)
    @@ ("5" :> 5) @@ ("6" :> 6) @@ ("7" :> 7) @@ ("8" :> 8) @@ ("9" :> 9)

\* The characters of the enumerated card numbers.
CardChars == {"0", "1", "5", "9", "-"}

\* The card numbers callers pass: every string of at most MaxCardLen
\* characters, and three sixteen-digit numbers, one of them with separators.
CardNumbers ==
    UNION { [1..n -> CardChars] : n \in 0..MaxCardLen }
    \cup { <<"4","5","3","2","0","1","5","1","1","2","8","3","0","3","6","6">>,
           <<"4","5","3","2","0","1","5","1","1","2","8","3","0","3","6","7">>,
           <<"4","5","3","2","-","0","1","5","1"," ","1","2","8","3","-","0","3","6","6">> }

\* line 325: cardNumber.replace(/\D/g, '')
StripNonDigits(cardNumber) ==
    LET IsDigit(ch) == ch \in DOMAIN DigitValue IN SelectSeq(cardNumber, IsDigit)

\* lines 329-341: the loop from the last digit (i counts from 1 here) to the
\* first, with its locals sum and isEven
RECURSIVE LuhnLoop(_, _, _, _)
LuhnLoop(digits, i, sum, isEven) ==
    IF i < 1 THEN sum
    ELSE LET digit == DigitValue[digits[i]]
             doubled == IF isEven THEN digit * 2 ELSE digit
             reduced == IF isEven /\ doubled > 9 THEN doubled - 9 ELSE doubled IN
         LuhnLoop(digits, i - 1, sum + reduced, ~isEven)

\* Mutant of IsValidCreditCard: the doubling starts at the last digit.
IsValidCreditCardDoublingLast(cardNumber) ==
    LET digits == StripNonDigits(cardNumber) IN
    LuhnLoop(digits, Len(digits), 0, TRUE) % 10 = 0

\* isValidCreditCard(cardNumber): lines 323-344
IsValidCreditCard(cardNumber) ==
    LET digits == StripNonDigits(cardNumber) IN
    LuhnLoop(digits, Len(digits), 0, FALSE) % 10 = 0

\* The class is loaded and isValidCreditCard is about to be called.
InitCreditCard ==
    /\ InitClass
    /\ hError = NoValue
    /\ hMessage = NoValue
    /\ cardArg \in CardNumbers
    /\ cardValid = NoValue
    /\ IdleDebounce

\* The call Utils.isValidCreditCard(cardNumber)
isValidCreditCard ==
    /\ cardValid = NoValue
    /\ cardValid' = [kind |-> "boolean", value |-> IsValidCreditCard(cardArg)]
    /\ UNCHANGED <<hError, hMessage, cardArg, pipelineVars, retryVars, cacheVars, batchVars, appVars,
                   debounceVars>>

-----------------------------------------------------------------------------
(* Utils.debounce(func, wait, immediate): part_000 lines 561-573, and      *)
(* App.debounce(func, wait): lines 1170-1180.  The clock counts            *)
(* milliseconds; a timer fires in the millisecond it is due, before the    *)
(* calls and the ticks of the clock that come after.                       *)

\* The values of wait, and the argument lists the debounced function is called with.
Waits == {2, 3}
CallArgs == {"a", "b"}

\* The function has been made by Utils.debounce(func, wait, immediate) or by
\* App.debounce(func, wait), which has no third parameter, and not been called.
InitDebounce ==
    /\ InitClass
    /\ IdleFunctions
    /\ dKind \in {"Utils", "App"}
    /\ dImmediate \in (IF dKind = "Utils" THEN BOOLEAN ELSE {FALSE})
    /\ dWait \in Waits
    /\ dNow = 0
    /\ dTimeout = Undefined
    /\ dPending = NoValue
    /\ dCalls = <<>>
    /\ dInvocations = <<>>

\* No timer is due: the timers due now fire before anything else happens.
NoTimerDue == IF dPending = NoValue THEN TRUE ELSE dPending.due > dNow

\* func is invoked with args now.
Invoked(args) == Append(dInvocations, [at |-> dNow, args |-> args])

\* The timer setTimeout(later, wait) sets for a call with args.
NewTimer(args) == [kind |-> "timer", due |-> dNow + dWait, args |-> args]

\* Mutant of executedFunction: a timer that is running is left to run, with
\* the arguments of the new call.
executedFunctionKeepingTimer(args) ==
    /\ dKind # Null
    /\ NoTimerDue
    /\ Len(dCalls) < MaxCalls
    /\ dCalls' = Append(dCalls, [at |-> dNow, args |-> args])
    /\ dPending' = IF dPending = NoValue THEN NewTimer(args) ELSE [dPending EXCEPT !.args = args]
    /\ dTimeout' = "id"
    /\ dInvocations' = IF dImmediate /\ dTimeout \in {Undefined, Null}
                       THEN Invoked(args)
                       ELSE dInvocations
    /\ UNCHANGED <<dKind, dImmediate, dWait, dNow>>
    /\ UNCHANGED <<pipelineVars, retryVars, cacheVars, batchVars, functionVars, appVars>>

\* A call executedFunction(...args) of the debounced function: lines 564-571,
\* lines 1173-1178.  clearTimeout(timeout) cancels the timer of the call
\* before, which is the only one that can be running; callNow is
\* immediate && !timeout.
executedFunction(args) ==
    /\ dKind # Null
    /\ NoTimerDue
    /\ Len(dCalls) < MaxCalls
    /\ dCalls' = Append(dCalls, [at |-> dNow, args |-> args])
    /\ dPending' = NewTimer(args)
    /\ dTimeout' = "id"
    /\ dInvocations' = IF dImmediate /\ dTimeout \in {Undefined, Null}
                       THEN Invoked(args)
                       ELSE dInvocations
    /\ UNCHANGED <<dKind, dImmediate, dWait, dNow>>
    /\ UNCHANGED <<pipelineVars, retryVars, cacheVars, batchVars, functionVars, appVars>>

\* The timer fires and runs later(): lines 565-568, where timeout becomes
\* null and func is applied unless immediate; lines 1173-1176, where
\* clearTimeout clears the timer that has just fired and func is called.
later ==
    /\ dPending # NoValue
    /\ dPending.due = dNow
    /\ dPending' = NoValue
    /\ dTimeout' = IF dKind = "Utils" THEN Null ELSE dTimeout
    /\ dInvocations' = IF dKind = "App" \/ ~dImmediate
                       THEN Invoked(dPending.args)
                       ELSE dInvocations
    /\ UNCHANGED <<dKind, dImmediate, dWait, dNow, dCalls>>
    /\ UNCHANGED <<pipelineVars, retryVars, cacheVars, batchVars, functionVars, appVars>>

\* A millisecond passes.
millisecond ==
    /\ dKind # Null
    /\ NoTimerDue
    /\ dNow < MaxTime
    /\ dNow' = dNow + 1
    /\ UNCHANGED <<dKind, dImmediate, dWait, dTimeout, dPending, dCalls, dInvocations>>
    /\ UNCHANGED <<pipelineVars, retryVars, cacheVars, batchVars, functionVars, appVars>>

-----------------------------------------------------------------------------
(* App: part_000 lines 738-1008.  App.init, initializeAuth, login and      *)
(* logout await calls of ApiClient; the pipeline follows one such call at  *)
(* a time, and owner names the method awaiting it.                         *)

\* The credentials callers pass to App.login.
CredentialsSet == {PlainData}

\* The Response objects fetch resolves with while a method of App is followed.
AppResponses ==
    { r \in Responses : /\ r.status \in {200, 401, 500}
                        /\ r.headers = ("content-type" :> <<"application/json">>)
                        /\ r.body \in JsonTexts }

\* response.success, response.user and response.token of what the awaited
\* call resolved with (lines 865-866 and 972-975); a property the value does
\* not have reads as undefined
SuccessOf(v) == "success" \in DOMAIN v /\ v.success = TRUE
UserOf(v) == IF "user" \in DOMAIN v THEN v.user ELSE Undefined
TokenOf(v) == IF "token" \in DOMAIN v THEN v.token ELSE Undefined

\* No call of request is followed and no method of App awaits one.
PipelineFree == pc = "idle" /\ owner = "none"

\* App.login(credentials) up to its await: line 970
login(credentials) ==
    /\ loaded
    /\ PipelineFree
    /\ lPc = "idle"
    /\ postCall(<<"/auth/login">>, credentials, EmptyObject)
    /\ owner' = "login"
    /\ lPc' = "awaiting"
    /\ lRet' = NoValue
    /\ UNCHANGED <<currentUser, isInitialized, listeners, aPc, authLog, oPc, oOutcome>>
    /\ UNCHANGED helperVars

\* await ApiClient.post('/auth/login', credentials) settles: lines 972-989.
\* localStorage.setItem throws when storage is denied, and the catch block
\* returns false.
loginResumes ==
    /\ lPc = "awaiting"
    /\ owner = "login"
    /\ pc = "settled"
    /\ IF outcome.kind = "resolved" /\ SuccessOf(outcome.value)
       THEN /\ currentUser' = UserOf(outcome.value)
            /\ IF storageOk
               THEN /\ localStorage' = [authToken |-> TokenOf(outcome.value),
                                        user |-> UserOf(outcome.value)]
                    /\ lRet' = [kind |-> "boolean", value |-> TRUE]
               ELSE /\ lRet' = [kind |-> "boolean", value |-> FALSE]
                    /\ UNCHANGED localStorage
       ELSE /\ lRet' = [kind |-> "boolean", value |-> FALSE]
            /\ UNCHANGED <<currentUser, localStorage>>
    /\ callTaken
    /\ owner' = "none"
    /\ lPc' = "settled"
    /\ UNCHANGED <<apiVars, storageOk, loaded, redirect>>
    /\ UNCHANGED <<isInitialized, listeners, aPc, authLog, oPc, oOutcome>>
    /\ UNCHANGED helperVars

\* The caller has taken what login resolved with; the next call can be followed.
loginReturns ==
    /\ lPc = "settled"
    /\ lPc' = "idle"
    /\ lRet' = NoValue
    /\ UNCHANGED <<currentUser, isInitialized, listeners, aPc, authLog, owner, oPc, oOutcome>>
    /\ UNCHANGED <<pipelineVars, helperVars>>

\* App.logout() up to its await (line 994), as the effect of a call
logoutCall ==
    /\ postCall(<<"/auth/logout">>, UndefinedValue, EmptyObject)
    /\ owner' = "logout"
    /\ oPc' = "awaiting"
    /\ oOutcome' = NoValue

\* A call of App.logout() made by code outside the class
logout ==
    /\ loaded
    /\ PipelineFree
    /\ oPc = "idle"
    /\ logoutCall
    /\ UNCHANGED <<currentUser, isInitialized, listeners, aPc, authLog, lPc, lRet>>
    /\ UNCHANGED helperVars

\* Mutant of logoutResumes: without the try around the server call, its
\* failure ends logout before the session is cleared.
logoutResumesUnguarded ==
    /\ oPc = "awaiting"
    /\ owner = "logout"
    /\ pc = "settled"
    /\ IF outcome.kind = "rejected"
       THEN /\ oOutcome' = outcome
            /\ UNCHANGED <<currentUser, localStorage, redirect>>
       ELSE /\ currentUser' = Null
            /\ IF storageOk
               THEN /\ localStorage' = [authToken |-> Null, user |-> Null]
                    /\ redirect' = "../index.html"
                    /\ oOutcome' = Resolved(UndefinedValue)
               ELSE /\ oOutcome' = Rejected(StorageError)
                    /\ UNCHANGED <<localStorage, redirect>>
    /\ callTaken
    /\ owner' = "none"
    /\ oPc' = "settled"
    /\ UNCHANGED <<apiVars, storageOk, loaded>>
    /\ UNCHANGED <<isInitialized, listeners, aPc, authLog, lPc, lRet>>
    /\ UNCHANGED helperVars

\* await ApiClient.post('/auth/logout') settles either way: the catch block
\* logs a rejection and the finally block runs, lines 995-1007.
\* localStorage.removeItem throws when storage is denied, which ends the
\* finally block and rejects the promise of logout.
logoutResumes ==
    /\ oPc = "awaiting"
    /\ owner = "logout"
    /\ pc = "settled"
    /\ currentUser' = Null
    /\ IF storageOk
       THEN /\ localStorage' = [authToken |-> Null, user |-> Null]
            /\ redirect' = "../index.html"
            /\ oOutcome' = Resolved(UndefinedValue)
       ELSE /\ oOutcome' = Rejected(StorageError)
            /\ UNCHANGED <<localStorage, redirect>>
    /\ callTaken
    /\ owner' = "none"
    /\ oPc' = "settled"
    /\ UNCHANGED <<apiVars, storageOk, loaded>>
    /\ UNCHANGED <<isInitialized, listeners, aPc, authLog, lPc, lRet>>
    /\ UNCHANGED helperVars

\* The settlement of logout has been observed; the next call can be followed.
logoutReturns ==
    /\ oPc = "settled"
    /\ oPc' = "idle"
    /\ oOutcome' = NoValue
    /\ UNCHANGED <<currentUser, isInitialized, listeners, aPc, authLog, owner, lPc, lRet>>
    /\ UNCHANGED <<pipelineVars, helperVars>>

\* A call of ApiClient.handleUnauthorized() made by code outside the class
handleUnauthorizedCalled ==
    /\ loaded
    /\ PipelineFree
    /\ handleUnauthorized
    /\ UNCHANGED <<baseUrl, requestInterceptors, responseInterceptors, storageOk, loaded, callVars>>
    /\ UNCHANGED <<appVars, helperVars>>

\* The browser grants the page the access to storage it had denied.
storageGranted ==
    /\ loaded
    /\ ~storageOk
    /\ oPc # "settled"
    /\ storageOk' = TRUE
    /\ UNCHANGED <<localStorage, loaded, redirect, apiVars, callVars>>
    /\ UNCHANGED <<appVars, helperVars>>

\* The call number k of App.init() up to its first await: lines 750-756 and
\* initializeServices up to the end of its synchronous part (line 783).
\* The scripts that would define the controllers are not on the page.
appInit(k) ==
    /\ loaded
    /\ aPc[k] = "idle"
    /\ IF isInitialized
       THEN /\ aPc' = [aPc EXCEPT ![k] = "returned"]
            /\ UNCHANGED baseUrl
       ELSE /\ baseUrl' = DefaultBaseUrl
            /\ aPc' = [aPc EXCEPT ![k] = "services"]
    /\ UNCHANGED <<authToken, requestInterceptors, responseInterceptors, envVars, callVars>>
    /\ UNCHANGED <<currentUser, isInitialized, listeners, authLog, owner, lPc, lRet, oPc, oOutcome>>
    /\ UNCHANGED helperVars

\* await this.initializeServices() resumes: setupEventListeners (line 759)
\* and initializeAuth up to its await or its return (lines 860-875).  Reading
\* localStorage throws when storage is denied, and the catch block calls
\* logout without awaiting it.
appInitResumes(k) ==
    /\ aPc[k] = "services"
    /\ PipelineFree
    /\ oPc = "idle"
    /\ listeners' = listeners + 1
    /\ IF ~storageOk
       THEN /\ logoutCall
            /\ authLog' = [token |-> "SecurityError", verify |-> NoValue, logout |-> TRUE]
            /\ aPc' = [aPc EXCEPT ![k] = "auth"]
       ELSE IF localStorage.authToken = Null
       THEN /\ authLog' = [token |-> Null, verify |-> NoValue, logout |-> FALSE]
            /\ aPc' = [aPc EXCEPT ![k] = "auth"]
            /\ UNCHANGED <<pipelineVars, owner, oPc, oOutcome>>
       ELSE /\ getCall(<<"/auth/verify">>, EmptyObject)
            /\ owner' = "verify"
            /\ authLog' = [token |-> localStorage.authToken, verify |-> NoValue, logout |-> FALSE]
            /\ aPc' = [aPc EXCEPT ![k] = "verify"]
            /\ UNCHANGED <<oPc, oOutcome>>
    /\ UNCHANGED <<currentUser, isInitialized, lPc, lRet>>
    /\ UNCHANGED helperVars

\* await ApiClient.get('/auth/verify') settles in initializeAuth: lines
\* 865-874.  logout is called, and not awaited, when the value lacks a truthy
\* success and when the call rejected.
initializeAuthResumes(k) ==
    /\ aPc[k] = "verify"
    /\ owner = "verify"
    /\ pc = "settled"
    /\ oPc = "idle"
    /\ IF outcome.kind = "resolved" /\ SuccessOf(outcome.value)
       THEN /\ currentUser' = UserOf(outcome.value)
            /\ authLog' = [authLog EXCEPT !.verify = outcome]
            /\ callTaken
            /\ owner' = "none"
            /\ UNCHANGED <<apiVars, envVars, oPc, oOutcome>>
       ELSE /\ logoutCall
            /\ authLog' = [authLog EXCEPT !.verify = outcome, !.logout = TRUE]
            /\ UNCHANGED currentUser
    /\ aPc' = [aPc EXCEPT ![k] = "auth"]
    /\ UNCHANGED <<isInitialized, listeners, lPc, lRet>>
    /\ UNCHANGED helperVars

\* await this.initializeAuth() resumes: setupNavigation, initializePWA and
\* the flag, lines 765-770
appInitCompletes(k) ==
    /\ aPc[k] = "auth"
    /\ isInitialized' = TRUE
    /\ aPc' = [aPc EXCEPT ![k] = "done"]
    /\ UNCHANGED <<currentUser, listeners, authLog, owner, lPc, lRet, oPc, oOutcome>>
    /\ UNCHANGED <<pipelineVars, helperVars>>

-----------------------------------------------------------------------------
Next ==
    \/ init
    \/ \E u \in BaseUrls : setBaseUrl(u)
    \/ \E ic \in CallerRequestInterceptors : addRequestInterceptor(ic)
    \/ \E p \in CallerResponseInterceptors : addResponseInterceptor(p.onFulfilled, p.onRejected)
    \/ \E e \in Endpoints, o \in OptionsSet : request(e, o)
    \/ \E e \in Endpoints, q \in ParamsSet : get(e, q)
    \/ \E e \in Endpoints, d \in DataSet, o \in PostOptionsSet : post(e, d, o)
    \/ \E e \in Endpoints, d \in DataSet : put(e, d, EmptyObject)
    \/ \E e \in Endpoints, d \in DataSet : patch(e, d, EmptyObject)
    \/ \E e \in Endpoints, f \in Files, a \in AdditionalDataSet : uploadFile(e, f, a)
    \/ \E e \in Endpoints : delete(e, EmptyObject)
    \/ \E r \in Responses : fetchResolves(r)
    \/ fetchRejects
    \/ bodySettles
    \/ requestReturns

\* The request pipeline
Spec == Init /\ [][Next]_vars

NextRetry ==
    \/ \E n \in RetryCounts, d \in Delays : retryRequest(n, d)
    \/ \E v \in FnValues : requestFnResolves(v)
    \/ \E e \in FnErrors : requestFnRejects(e)
    \/ timerFires
    \/ retryReturns

\* The retry helper
SpecRetry == Init /\ [][NextRetry]_vars

\* The request pipeline with request interceptors that register others
NextLive ==
    \/ init
    \/ \E ic \in CallerRequestInterceptors \cup RegisteringRequestInterceptors :
          addRequestInterceptor(ic)
    \/ \E e \in Endpoints, o \in OptionsSet : request(e, o)
    \/ \E r \in Responses : fetchResolves(r)
    \/ fetchRejects
    \/ bodySettles
    \/ requestReturns

SpecLive == Init /\ [][NextLive]_vars

NextCache ==
    \/ ~loaded /\ init
    \/ \E t \in Instants : tick(t)
    \/ \E k \in CacheKeys, d \in CacheData, t \in Timeouts : setCache(k, d, t)
    \/ \E k \in CacheKeys : getCache(k)
    \/ getCacheReturns
    \/ clearCache
    \/ \E e \in Endpoints, q \in ParamsSet, ck \in CacheKeyArgs : getWithCache(e, q, ck)
    \/ \E r \in CachedResponses : fetchResolves(r)
    \/ fetchRejects
    \/ bodySettles
    \/ getWithCacheResumes
    \/ getWithCacheReturns
    \/ gPc = "idle" /\ requestReturns

\* The cache and getWithCache over the request pipeline
SpecCache == Init /\ [][NextCache]_vars

NextOverlap ==
    \/ ~loaded /\ init
    \/ /\ parked # NoValue => parked.gPc = "awaiting"
       /\ \E e \in Endpoints, q \in ParamsSet, ck \in CacheKeyArgs : getWithCache(e, q, ck)
    \/ followOther
    \/ \E r \in CachedResponses : fetchResolves(r)
    \/ fetchRejects
    \/ bodySettles
    \/ getWithCacheResumes
    \/ getWithCacheReturns
    \/ gPc = "idle" /\ requestReturns

\* Two calls of getWithCache in progress at a time
SpecOverlap == Init /\ [][NextOverlap]_vars

NextDebounce ==
    \/ \E a \in CallArgs : executedFunction(a)
    \/ later
    \/ millisecond

\* A debounced function, its timer and the clock
SpecDebounce == InitDebounce /\ [][NextDebounce]_vars

NextSession ==
    \/ ~loaded /\ init
    \/ \E c \in CredentialsSet : login(c)
    \/ loginResumes
    \/ loginReturns
    \/ logout
    \/ logoutResumes
    \/ logoutReturns
    \/ handleUnauthorizedCalled
    \/ \E r \in AppResponses : fetchResolves(r)
    \/ fetchRejects
    \/ bodySettles

\* The session: login, logout and handleUnauthorized after the load
SpecSession == Init /\ [][NextSession]_vars

NextApp ==
    \/ ~loaded /\ init
    \/ storageGranted
    \/ \E k \in 1..MaxInitCalls : appInit(k)
    \/ \E k \in 1..MaxInitCalls : appInitResumes(k)
    \/ \E k \in 1..MaxInitCalls : initializeAuthResumes(k)
    \/ \E k \in 1..MaxInitCalls : appInitCompletes(k)
    \/ logout
    \/ logoutResumes
    \/ logoutReturns
    \/ \E r \in AppResponses : fetchResolves(r)
    \/ fetchRejects
    \/ bodySettles

\* The calls of App.init and of App.logout after the load
SpecApp == Init /\ [][NextApp]_vars

NextBatch ==
    \/ \E requests \in BatchArgs : batchRequest(requests)
    \/ \E i \in 1..MaxBatch : promiseSettles(i)
    \/ batchReturns

\* The batch helper
SpecBatch == Init /\ [][NextBatch]_vars

NextHandleError == handleError

\* The error classifier on each error
SpecHandleError == InitHandleError /\ [][NextHandleError]_vars

NextCreditCard == isValidCreditCard

\* The card number check on each card number
SpecCreditCard == InitCreditCard /\ [][NextCreditCard]_vars

-----------------------------------------------------------------------------
(* Properties of the request pipeline *)

\* request has been called in the call being followed (post can fail before it).
RequestCalled == initialConfig # EmptyObject
\* The call being followed has settled.
Settled == pc = "settled"
\* The call being followed received a response from fetch.
Received == response # NoResponse
\* The call being followed saw fetch fail without a response.
TransportFailed == Settled /\ fetchLog # <<>> /\ ~Received

\* The positions of the response interceptors that define the callback `field`.
Defining(field) ==
    {i \in 1..Len(responseInterceptors) : responseInterceptors[i][field] # Undefined}

Least(S) == CHOOSE m \in S : \A n \in S : m <= n

\* C1: every call of request applies all registered request interceptors in
\* registration order, each one receiving what the one before it returned, and
\* hands fetch the value the last one returned.
C1_InterceptorsFoldedInOrder ==
    RequestCalled =>
        /\ Len(reqLog) = Len(requestInterceptors)
        /\ \A k \in 1..Len(reqLog) :
              /\ reqLog[k].interceptor = requestInterceptors[k]
              /\ reqLog[k].arg = (IF k = 1 THEN initialConfig ELSE reqLog[k - 1].ret)
        /\ Len(fetchLog) = 1
        /\ fetchLog[1].config =
              (IF reqLog = <<>> THEN initialConfig ELSE reqLog[Len(reqLog)].ret)

\* C1, what the code does instead: with at least one interceptor registered the
\* call invokes the first one only, never reaches fetch and rejects with the
\* TypeError of the assignment to the const binding.
C1_FirstInterceptorThenTypeError ==
    (RequestCalled /\ requestInterceptors # <<>>) =>
        /\ Settled
        /\ Len(reqLog) = 1
        /\ fetchLog = <<>>
        /\ outcome = Rejected(ConstAssignError)

C1_Witness ==
    /\ Settled
    /\ Len(requestInterceptors) = 2
    /\ requestInterceptors[1] = "auth"
    /\ authToken # Null
    /\ Len(reqLog) = 1

\* C2 as stated: whenever a call has received a response and some interceptor
\* defines a success callback, the call invoked the success callback of the
\* first such interceptor, no other, and returned what that callback returned.
C2_FirstSuccessCallbackDecides ==
    (Settled /\ Received /\ Defining("onFulfilled") # {}) =>
        LET i == Least(Defining("onFulfilled")) IN
        /\ Len(okLog) = 1
        /\ okLog[1].index = i
        /\ outcome = Resolved(CallOnFulfilled(responseInterceptors[i].onFulfilled,
                                               okLog[1].arg).value)

\* C2 amended: a call that has received a response invokes at most one success
\* callback, and only that of the first interceptor defining one; it invokes
\* it whenever the body was read without error; and when the callback returns,
\* the call resolves with the value returned.
C2_FirstSuccessCallbackOnly ==
    (Settled /\ Received) =>
        /\ Len(okLog) <= 1
        /\ \A k \in 1..Len(okLog) :
              /\ Defining("onFulfilled") # {}
              /\ okLog[k].index = Least(Defining("onFulfilled"))
              /\ LET r == CallOnFulfilled(responseInterceptors[okLog[k].index].onFulfilled,
                                          okLog[k].arg)
                 IN  ~r.threw => outcome = Resolved(r.value)
        /\ (data # NoValue /\ Defining("onFulfilled") # {}) => Len(okLog) = 1
        /\ data = NoValue => okLog = <<>>

C2_Witness ==
    /\ Settled
    /\ Received
    /\ Defining("onFulfilled") = {1, 2}
    /\ responseInterceptors[1].onFulfilled = "unwrap"
    /\ Len(okLog) = 1
    /\ okLog[1].index = 1
    /\ outcome = Resolved(data)

\* C3: when fetch fails without a response, exactly the failure callback of the
\* first interceptor that defines one is invoked, with the error, and the call
\* settles as that callback's result; with no such interceptor the call rejects
\* with the original error.
C3_FirstFailureCallbackDecides ==
    TransportFailed =>
        /\ okLog = <<>>
        /\ IF Defining("onRejected") = {}
           THEN /\ errLog = <<>>
                /\ outcome = Rejected(FetchError)
           ELSE LET i == Least(Defining("onRejected")) IN
                /\ errLog = <<[index |-> i, error |-> FetchError]>>
                /\ outcome = CallOnRejected(responseInterceptors[i].onRejected, FetchError)

C3_Witness ==
    /\ TransportFailed
    /\ Defining("onRejected") = {1, 2}
    /\ Len(errLog) = 1
    /\ errLog[1].index = 1
    /\ outcome.kind = "resolved"

\* handleUnauthorized has run in the call being followed.
LoggedOutByCall ==
    \E k \in 1..Len(errLog) :
        /\ responseInterceptors[errLog[k].index].onRejected = "default401"
        /\ IsUnauthorized(errLog[k].error)

\* C4: once a call has received a response with status 401, the stored token
\* is cleared (ApiClient.authToken is null, the localStorage keys authToken and
\* user are removed) and the page has been sent to a login context.
C4_UnauthorizedClearsSession ==
    (Settled /\ Received /\ response.status = 401) =>
        /\ authToken = Null
        /\ localStorage = [authToken |-> Null, user |-> Null]
        /\ redirect # Null

\* C4, what the code does instead: a 401 response resolves fetch, so the catch
\* block is not entered for it; handleUnauthorized runs only when a success
\* callback supplied by a caller throws an error that carries the response.
C4_LogoutOnlyWhenCallbackThrows ==
    (Settled /\ LoggedOutByCall) =>
        /\ Len(okLog) = 1
        /\ responseInterceptors[okLog[1].index].onFulfilled = "throwHttp"

C4_Witness ==
    /\ Settled
    /\ Received
    /\ response.status = 401
    /\ Len(responseInterceptors) >= 1
    /\ responseInterceptors[1] = DefaultResponseInterceptor
    /\ outcome.kind = "resolved"
    /\ ~LoggedOutByCall

\* The success callback invoked by the call being followed threw.
SuccessCallbackThrew ==
    /\ okLog # <<>>
    /\ CallOnFulfilled(responseInterceptors[okLog[1].index].onFulfilled, okLog[1].arg).threw

C6_HeadersMergedKeyByKey ==
    RequestCalled =>
        LET given == IF "headers" \in DOMAIN options THEN options.headers ELSE EmptyObject IN
        /\ initialConfig.method = (IF "method" \in DOMAIN options THEN options.method ELSE "GET")
        /\ DOMAIN initialConfig.headers = DOMAIN defaultHeaders \cup DOMAIN given
        /\ \A h \in DOMAIN initialConfig.headers :
              initialConfig.headers[h] = (IF h \in DOMAIN given THEN given[h] ELSE defaultHeaders[h])

\* C6 amended: the initial config has every key of options with the caller's
\* value, method GET when options has no method, and as headers the caller's
\* headers object as it is when options has one (a default header the caller
\* did not repeat is then absent) and the default headers otherwise.
C6_OptionsReplaceTopLevelKeys ==
    RequestCalled =>
        /\ DOMAIN initialConfig = {"method", "headers"} \cup DOMAIN options
        /\ \A k \in DOMAIN options : initialConfig[k] = options[k]
        /\ "method" \notin DOMAIN options => initialConfig.method = "GET"
        /\ "headers" \notin DOMAIN options =>
              /\ DOMAIN initialConfig.headers = {"Content-Type", "Accept"}
              /\ initialConfig.headers["Content-Type"] = "application/json"
              /\ initialConfig.headers["Accept"] = "application/json"

C6_Witness ==
    /\ RequestCalled
    /\ "headers" \in DOMAIN options
    /\ "X-Requested-With" \in DOMAIN options.headers
    /\ "Content-Type" \notin DOMAIN initialConfig.headers
    /\ initialConfig.method = "GET"

\* The response object built from the response and the parsed body shows the
\* fields of the response.
ShowsResponse(obj) ==
    /\ obj.kind = "envelope"
    /\ obj.data = data
    /\ obj.status = response.status
    /\ obj.statusText = response.statusText
    /\ obj.headers = response.headers
    /\ obj.ok = (response.status \in 200..299)

\* C7 as stated: for every received response the call builds the response
\* object, and returns it unmodified when no interceptor defines a success
\* callback.
C7_EnvelopeForEveryResponse ==
    (Settled /\ Received /\ Defining("onFulfilled") = {}) =>
        /\ outcome.kind = "resolved"
        /\ ShowsResponse(outcome.value)

\* C7 amended: for every received response whose body was read without error
\* the call builds a response object with the parsed data, the status, the
\* status text, the header map and a success flag that is true exactly for a
\* 2xx status; that object is what a success callback receives, and what the
\* call resolves with when no interceptor defines a success callback.
C7_EnvelopeWhenBodyRead ==
    (Settled /\ Received /\ data # NoValue) =>
        /\ \A k \in 1..Len(okLog) : ShowsResponse(okLog[k].arg)
        /\ Defining("onFulfilled") = {} =>
              /\ outcome.kind = "resolved"
              /\ ShowsResponse(outcome.value)

C7_Witness ==
    /\ Settled
    /\ Received
    /\ response.status = 204
    /\ Len(responseInterceptors) = 1
    /\ Defining("onFulfilled") = {}
    /\ outcome.kind = "resolved"
    /\ outcome.value.ok

\* C8: the body of a received response is read as JSON exactly when the
\* content-type header is present and contains application/json; otherwise
\* it is read as text and the text is the data of the response object.
C8_JsonExactlyForJsonContentType ==
    Received =>
        LET isJson == /\ "content-type" \in DOMAIN response.headers
                      /\ \E n \in 1..Len(response.headers["content-type"]) :
                            response.headers["content-type"][n] = "application/json"
        IN  /\ parseAs = (IF isJson THEN "json" ELSE "text")
            /\ (Settled /\ ~isJson) =>
                  /\ data = [kind |-> "text", text |-> response.body]
                  /\ \A k \in 1..Len(okLog) : okLog[k].arg.data = data
            /\ (Settled /\ isJson /\ data # NoValue) => data.kind = "json"

C8_Witness ==
    /\ Settled
    /\ Received
    /\ response.headers = ("content-type" :> <<"application/json", "; charset=utf-8">>)
    /\ data.kind = "json"

\* C9: one call of request issues at most one network call, whatever the
\* outcome of that call.
C9_AtMostOneFetch ==
    Len(fetchLog) <= 1

C9_Witness ==
    /\ TransportFailed
    /\ Len(fetchLog) = 1
    /\ outcome.kind = "rejected"

-----------------------------------------------------------------------------
(* Properties of the body-carrying wrappers *)

\* The request a wrapper called with data d has dispatched, if it has
\* dispatched one, carries d as the claim says: a FormData as it is and no
\* Content-Type header, anything else as its JSON text.
BodyRule(d) ==
    fetchLog' # <<>> =>
       LET c == fetchLog'[1].config IN
       IF d.kind = "formdata"
       THEN c.body = d /\ "Content-Type" \notin DOMAIN c.headers
       ELSE c.body = JsonStringify(d)

\* C17: for post, put and patch the dispatched body is the JSON text of the
\* data, except that a FormData is dispatched as it is and without a
\* Content-Type header; uploadFile dispatches, through post, the FormData
\* built from the file and the additional fields, without Content-Type.
C17_FormDataSentAsIs ==
    [][ /\ \A e \in Endpoints, d \in DataSet, o \in PostOptionsSet : post(e, d, o) => BodyRule(d)
        /\ \A e \in Endpoints, d \in DataSet : put(e, d, EmptyObject) => BodyRule(d)
        /\ \A e \in Endpoints, d \in DataSet : patch(e, d, EmptyObject) => BodyRule(d)
        /\ \A e \in Endpoints, f \in Files, a \in AdditionalDataSet :
              uploadFile(e, f, a) => BodyRule(NewFormData(f, a))
      ]_vars

\* What the code does: only post treats a FormData apart, and only when the
\* options carry a headers object (as uploadFile's do); without one post
\* fails before calling request; put and patch dispatch the JSON text of
\* whatever they are given, with the default Content-Type.
C17_OnlyPostWithHeadersSendsFormData ==
    [][ /\ \A e \in Endpoints, d \in DataSet, o \in PostOptionsSet :
              post(e, d, o) =>
                 IF d.kind = "formdata" /\ "headers" \notin DOMAIN o
                 THEN /\ pc' = "settled"
                      /\ outcome' = Rejected(UndefinedPropertyError)
                      /\ fetchLog' = <<>>
                      /\ initialConfig' = EmptyObject
                 ELSE BodyRule(d)
        /\ \A e \in Endpoints, d \in DataSet :
              (put(e, d, EmptyObject) \/ patch(e, d, EmptyObject)) =>
                 (fetchLog' # <<>> =>
                     /\ fetchLog'[1].config.body = JsonStringify(d)
                     /\ fetchLog'[1].config.headers["Content-Type"] = "application/json")
        /\ \A e \in Endpoints, f \in Files, a \in AdditionalDataSet :
              uploadFile(e, f, a) =>
                 /\ initialConfig'.method = "POST"
                 /\ BodyRule(NewFormData(f, a))
      ]_vars

\* put was given a FormData and dispatched the text {} as JSON.
C17_Witness ==
    /\ fetchLog # <<>>
    /\ fetchLog[1].config.method = "PUT"
    /\ fetchLog[1].config.body = JsonStringify(FormData)
    /\ fetchLog[1].config.headers["Content-Type"] = "application/json"

\* uploadFile has dispatched its FormData without a Content-Type header.
C17_UploadDispatched ==
    /\ fetchLog # <<>>
    /\ fetchLog[1].config.method = "POST"
    /\ fetchLog[1].config.body = NewFormData("f1", [caption |-> "c"])
    /\ "Content-Type" \notin DOMAIN fetchLog[1].config.headers

-----------------------------------------------------------------------------
(* Properties of retryRequest *)

\* The invocations of requestFn that have settled so far all failed.
AllFailed == \A j \in 1..Len(rLog) : rLog[j].kind = "rejected"

\* C10: when requestFn fails k times and then succeeds, with k < maxRetries,
\* requestFn is invoked exactly k + 1 times, retryRequest resolves with the
\* value of that first successful invocation, and requestFn is not invoked
\* again: a success is always the last invocation and settles the call with
\* its value, and the call never gives up while fewer than maxRetries
\* invocations have failed.
C10_RetryStopsAtFirstSuccess ==
    /\ \A j \in 1..(Len(rLog) - 1) : rLog[j].kind = "rejected"
    /\ (rLog # <<>> /\ rLog[Len(rLog)].kind = "resolved") =>
          /\ Len(rLog) - 1 < rMax
          /\ rCalls = Len(rLog)
          /\ rPc = "settled"
          /\ rOutcome = Resolved(rLog[Len(rLog)].value)
    /\ (rPc = "settled" /\ AllFailed /\ rMax >= 1) => Len(rLog) >= rMax
    /\ (rPc \in {"awaiting", "sleeping"}) => Len(rLog) < rMax

C10_Witness ==
    /\ rPc = "settled"
    /\ rMax = 3
    /\ Len(rLog) = 3
    /\ rLog[1].kind = "rejected"
    /\ rLog[2].kind = "rejected"
    /\ rLog[3] = Resolved([kind |-> "value", name |-> "v2"])
    /\ rCalls = 3
    /\ rOutcome = Resolved([kind |-> "value", name |-> "v2"])

\* The number of failed invocations of requestFn so far.
Failures == Cardinality({j \in 1..Len(rLog) : rLog[j].kind = "rejected"})

\* C11: when maxRetries >= 1 and every invocation of requestFn fails,
\* requestFn is invoked exactly maxRetries times and retryRequest then
\* rejects with the error of the last invocation: while all invocations have
\* failed the call is never settled before the maxRetries-th failure, never
\* invokes requestFn more than maxRetries times, and its settlement is the
\* rejection with the error logged last.
C11_ExhaustionRethrowsLastError ==
    (AllFailed /\ rMax >= 1 /\ rPc # "idle") =>
        /\ rCalls <= rMax
        /\ (rPc = "settled") =>
              /\ rCalls = rMax
              /\ Len(rLog) = rMax
              /\ rOutcome = Rejected(rLog[rMax].value)
        /\ (rPc # "settled") => rOutcome = NoValue

C11_Witness ==
    /\ rPc = "settled"
    /\ rMax = 3
    /\ rCalls = 3
    /\ rLog = << Rejected([kind |-> "error", name |-> "e1"]),
                 Rejected([kind |-> "error", name |-> "e1"]),
                 Rejected([kind |-> "error", name |-> "e2"]) >>
    /\ rOutcome = Rejected([kind |-> "error", name |-> "e2"])

\* C12: retryRequest sleeps only between attempts: the wait that follows the
\* failed attempt number i (from 0) is delay * 2^i, there is one wait per
\* failed attempt that is followed by another attempt, and none after the
\* failed attempt that ends the call.
C12_BackoffBetweenAttemptsOnly ==
    /\ \A j \in 1..Len(rSleeps) :
          /\ rSleeps[j] = rDelay * Pow2(j - 1)
          /\ rLog[j].kind = "rejected"
    /\ (rPc = "sleeping") => Len(rSleeps) = rCalls /\ rCalls < rMax
    /\ (rPc = "awaiting") => Len(rSleeps) = rCalls - 1
    /\ (rPc = "settled" /\ rCalls >= 1) =>
          /\ Len(rSleeps) = rCalls - 1
          /\ Len(rSleeps) = IF rOutcome.kind = "rejected" THEN Failures - 1 ELSE Failures

C12_Witness ==
    /\ rPc = "settled"
    /\ rMax = 4
    /\ rDelay = 10
    /\ AllFailed
    /\ rCalls = 4
    /\ rSleeps = <<10, 20, 40>>
    /\ rOutcome.kind = "rejected"

-----------------------------------------------------------------------------
(* Properties of the cache and of getWithCache *)

\* C13: setCache(key, v, ttl) stores v with the time of the call and ttl;
\* getCache(key) returns the stored value whenever now - timestamp <= ttl,
\* the boundary included, and leaves the cache as it is; otherwise (the entry
\* is older than its ttl, or the key has no entry, as after an eviction) it
\* returns null, and the key has no entry afterwards while every other entry
\* stays.
C13_ReadWithinTtlElseEvict ==
    [][ /\ \A k \in CacheKeys, d \in CacheData, t \in Timeouts :
              setCache(k, d, t) => cache'[k] = [data |-> d, timestamp |-> now, timeout |-> t]
        /\ \A k \in CacheKeys :
              getCache(k) =>
                 IF k \in DOMAIN cache /\ now - cache[k].timestamp <= cache[k].timeout
                 THEN cRet'.value = cache[k].data /\ cache' = cache
                 ELSE /\ cRet'.value = NullValue
                      /\ k \notin DOMAIN cache'
                      /\ \A j \in (DOMAIN cache) \ {k} : j \in DOMAIN cache' /\ cache'[j] = cache[j]
      ]_vars

\* A read exactly ttl after the write has returned the stored value.
C13_Witness ==
    /\ cRet = [kind |-> "returned", key |-> <<"k1">>, value |-> [kind |-> "text", text |-> "v"]]
    /\ <<"k1">> \in DOMAIN cache
    /\ cache[<<"k1">>].timeout = 1
    /\ now - cache[<<"k1">>].timestamp = 1

\* C19: an entry leaves the cache only through clearCache or through a
\* getCache of its own key (made directly or by getWithCache) after its ttl
\* has passed; setCache, reads of other keys, getWithCache on another key
\* and the passing of time never remove it.
C19_EvictionOnlyOnOwnExpiredRead ==
    [][ \A k \in DOMAIN cache :
           k \notin DOMAIN cache' =>
              \/ clearCache
              \/ /\ Expired(cache[k], now)
                 /\ \/ getCache(k)
                    \/ \E e \in Endpoints, q \in ParamsSet, ck \in CacheKeyArgs :
                          KeyOf(e, q, ck) = k /\ getWithCache(e, q, ck)
      ]_vars

\* An expired entry is still in the cache after a read of another key.
C19_Witness ==
    /\ cRet # NoValue
    /\ \E k \in DOMAIN cache : Expired(cache[k], now) /\ cRet.key # k

\* The cacheKey arguments that name a key: null and the non-empty strings.
PlainCacheKeyArgs == {ck \in CacheKeyArgs : ck = NullValue \/ Truthy(ck)}

\* The entry setCache writes at the present time with the default timeout.
FreshEntry(d) == [data |-> d, timestamp |-> now, timeout |-> cacheTimeout]

\* C14: getWithCache uses cacheKey if given and otherwise endpoint +
\* JSON(params) as key; when the key has an unexpired entry it returns
\* {data: cached value, fromCache: true} and calls neither get nor fetch;
\* otherwise it calls get once, and when get resolves it stores the data
\* field of what get resolved with under the key with the default timeout
\* and returns what get resolved with.
C14_HitWheneverEntryUnexpired ==
    [][ /\ \A e \in Endpoints, q \in ParamsSet, ck \in PlainCacheKeyArgs :
              getWithCache(e, q, ck) =>
                 LET key == IF ck # NullValue THEN ck.value ELSE e \o StringifyParams(q) IN
                 /\ gKey' = key
                 /\ IF key \in DOMAIN cache /\ now - cache[key].timestamp <= cache[key].timeout
                    THEN /\ gOutcome' = Resolved([kind |-> "hit", data |-> cache[key].data,
                                                  fromCache |-> TRUE])
                         /\ pc' = "idle"
                         /\ fetchLog' = <<>>
                    ELSE /\ pc' # "idle"
                         /\ initialConfig'.method = "GET"
                         /\ Len(fetchLog') <= 1
        /\ getWithCacheResumes =>
              /\ Len(fetchLog) <= 1
              /\ gOutcome' = outcome
              /\ outcome.kind = "resolved" => cache'[gKey] = FreshEntry(DataOf(outcome.value))
              /\ outcome.kind = "rejected" => cache' = cache
      ]_vars

\* What the code does: the same, with a hit exactly when the unexpired entry
\* holds a truthy value; an entry holding "" (or any falsy value) is treated
\* as a miss.
C14_HitOnlyForTruthyValue ==
    [][ /\ \A e \in Endpoints, q \in ParamsSet, ck \in PlainCacheKeyArgs :
              getWithCache(e, q, ck) =>
                 LET key == IF ck # NullValue THEN ck.value ELSE e \o StringifyParams(q) IN
                 /\ gKey' = key
                 /\ IF /\ key \in DOMAIN cache
                       /\ now - cache[key].timestamp <= cache[key].timeout
                       /\ ValueTruthy(cache[key].data)
                    THEN /\ gOutcome' = Resolved([kind |-> "hit", data |-> cache[key].data,
                                                  fromCache |-> TRUE])
                         /\ pc' = "idle"
                         /\ fetchLog' = <<>>
                    ELSE /\ pc' # "idle"
                         /\ initialConfig'.method = "GET"
                         /\ Len(fetchLog') <= 1
        /\ getWithCacheResumes =>
              /\ Len(fetchLog) <= 1
              /\ gOutcome' = outcome
              /\ outcome.kind = "resolved" => cache'[gKey] = FreshEntry(DataOf(outcome.value))
              /\ outcome.kind = "rejected" => cache' = cache
      ]_vars

\* The key had an unexpired entry holding the empty string, and the call went
\* to the network and returned a fresh envelope.
C14_Witness ==
    /\ gPc = "settled"
    /\ gCached = [kind |-> "text", text |-> ""]
    /\ Len(fetchLog) = 1
    /\ gOutcome.kind = "resolved"
    /\ gOutcome.value.kind = "envelope"

\* C15: every value getWithCache writes into the cache is the payload of a
\* successful response: when the call writes, get has resolved with an
\* envelope whose success flag is true.
C15_OnlySuccessfulPayloadsCached ==
    [][ (getWithCacheResumes /\ cache' # cache) =>
           /\ outcome.kind = "resolved"
           /\ outcome.value.kind = "envelope"
           /\ outcome.value.ok
      ]_vars

\* The body of a 500 response has just been stored under the key.
C15_Witness ==
    /\ gPc = "settled"
    /\ pc = "settled"
    /\ outcome.kind = "resolved"
    /\ outcome.value.kind = "envelope"
    /\ outcome.value.status = 500
    /\ ~outcome.value.ok
    /\ gKey \in DOMAIN cache
    /\ cache[gKey] = FreshEntry(outcome.value.data)

-----------------------------------------------------------------------------
(* Properties of batchRequest *)

\* The entry of the result array for the callable at position i.
ExpectedResult(i) ==
    IF bRequests[i] = "resolves"
    THEN [status |-> "fulfilled", value |-> ValueOf(i)]
    ELSE [status |-> "rejected", reason |-> ErrorOf(i)]

\* C16: batchRequest starts every callable, settles only when all have
\* settled, and resolves with one result per callable in input order,
\* whatever the order of settlement; a callable whose promise rejects, or
\* which throws, shows as that callable's rejected result and batchRequest
\* itself never rejects.
C16_OneResultPerCallable ==
    /\ bPc # "idle" => bStarted = Len(bRequests)
    /\ bPc = "settled" =>
          /\ bOutcome.kind = "resolved"
          /\ Len(bOrder) = Len(bRequests)
          /\ Len(bOutcome.value.items) = Len(bRequests)
          /\ \A i \in 1..Len(bRequests) : bOutcome.value.items[i] = ExpectedResult(i)

\* What the code does: the same when no callable throws; when one throws,
\* the callables after it are not started and batchRequest rejects with the
\* error thrown.
C16_UnlessACallableThrows ==
    LET t == FirstThrow(bRequests, 1) IN
    /\ (bPc # "idle" /\ t = 0) => bStarted = Len(bRequests)
    /\ (bPc = "settled" /\ t = 0) =>
          /\ bOutcome.kind = "resolved"
          /\ Len(bOrder) = Len(bRequests)
          /\ Len(bOutcome.value.items) = Len(bRequests)
          /\ \A i \in 1..Len(bRequests) : bOutcome.value.items[i] = ExpectedResult(i)
    /\ (bPc = "waiting") => bOutcome = NoValue /\ Len(bOrder) < Len(bRequests)
    /\ (bPc # "idle" /\ t # 0) =>
          /\ bPc = "settled"
          /\ bStarted = t
          /\ bOutcome = Rejected(ErrorOf(t))

\* The second of three callables threw: the third was not started and
\* batchRequest rejected.
C16_Witness ==
    /\ bPc = "settled"
    /\ bRequests = <<"resolves", "throws", "resolves">>
    /\ bStarted = 2
    /\ bOutcome = Rejected(ErrorOf(2))

\* The promises settled in the opposite order and the results are in input order.
C16_InputOrderReached ==
    /\ bPc = "settled"
    /\ bRequests = <<"resolves", "rejects">>
    /\ bOrder = <<2, 1>>
    /\ bOutcome.kind = "resolved"
    /\ bOutcome.value.items = << [status |-> "fulfilled", value |-> ValueOf(1)],
                                 [status |-> "rejected", reason |-> ErrorOf(2)] >>

-----------------------------------------------------------------------------
(* Properties of handleError *)

\* The message field of the data of a response, <<>> when there is none.
ServerMessage(d) == IF "message" \in DOMAIN d THEN d.message ELSE <<>>

\* The message the classification of the claim gives for a status and data.
StatusMessage(status, d) ==
    LET fixed == (401 :> <<"Unauthorized access">>) @@ (403 :> <<"Access forbidden">>)
                 @@ (404 :> <<"Resource not found">>)
                 @@ (429 :> <<"Too many requests. Please try again later.">>)
                 @@ (500 :> <<"Internal server error">>)
                 @@ (502 :> <<"Service temporarily unavailable">>)
                 @@ (503 :> <<"Service temporarily unavailable">>)
                 @@ (504 :> <<"Service temporarily unavailable">>)
        fallback == IF status = 400 THEN <<"Bad request">>
                    ELSE IF status = 422 THEN <<"Validation error">>
                    ELSE <<"Error ", ToString(status)>> IN
    IF status \in DOMAIN fixed THEN fixed[status]
    ELSE IF ServerMessage(d) # <<>> THEN ServerMessage(d) ELSE fallback

\* The message the claim gives for an error: by the response when one is
\* attached, else the network message when a request is, else the error's
\* own message or the generic one.
ClaimedMessage(error) ==
    IF error.response # UndefinedValue
    THEN StatusMessage(error.response.status, error.response.data)
    ELSE IF error.request THEN <<"Network error. Please check your connection.">>
    ELSE IF error.message # UndefinedValue /\ error.message.value # <<>>
         THEN error.message.value
         ELSE <<"An unexpected error occurred">>

\* The message would be read from data that is null.
NullDataRead(error) ==
    /\ error.response # UndefinedValue
    /\ error.response.status \notin {401, 403, 404, 429, 500, 502, 503, 504}
    /\ error.response.data = NullValue

\* C18: handleError maps every error to the message of the classification:
\* response first (by status), then request, then the error's own message.
C18_MessageByResponseRequestOwn ==
    hMessage # NoValue => hMessage = Returned(ClaimedMessage(hError))

\* What the code does: the same, except that for a response whose data is
\* null and whose status is 400, 422 or one without a fixed message, the call
\* throws a TypeError instead of returning a message.
C18_ThrowsOnNullData ==
    hMessage # NoValue =>
        IF NullDataRead(hError)
        THEN hMessage = Threw(UndefinedPropertyError)
        ELSE hMessage = Returned(ClaimedMessage(hError))

\* handleError was given a 400 response whose data is null, and threw.
C18_Witness ==
    /\ hError.response # UndefinedValue
    /\ hError.response.status = 400
    /\ hError.response.data = NullValue
    /\ hMessage = Threw(UndefinedPropertyError)

\* A response and a request are both attached and the status decided.
C18_ResponseBeforeRequest ==
    /\ hError.response # UndefinedValue
    /\ hError.response.status = 418
    /\ hError.request
    /\ hMessage = Returned(<<"Error ", "418">>)

-----------------------------------------------------------------------------
(* Properties of Utils.isValidCreditCard *)

\* The decimal digits of a card number, as numbers, in order.
DigitsOf(number) ==
    LET kept == SelectSeq(number, LAMBDA ch : ch \in {"0","1","2","3","4","5","6","7","8","9"})
        value(ch) == CHOOSE v \in 0..9 : ToString(v) = ch IN
    [p \in 1..Len(kept) |-> value(kept[p])]

\* The Luhn weight of digit d at position r from the right (1 is the last
\* digit): every second digit is doubled and the digits of the double added.
LuhnTerm(d, r) == IF r % 2 = 0 THEN ((2 * d) \div 10) + ((2 * d) % 10) ELSE d

RECURSIVE LuhnTotal(_, _)
LuhnTotal(ds, p) ==
    IF p > Len(ds) THEN 0 ELSE LuhnTerm(ds[p], Len(ds) - p + 1) + LuhnTotal(ds, p + 1)

PassesLuhn(number) == LuhnTotal(DigitsOf(number), 1) % 10 = 0

\* C20: isValidCreditCard returns true exactly when the digits of the card
\* number, the other characters removed, pass the Luhn check; it accepts
\* 4532015112830366 and rejects 4532015112830367.
C20_LuhnCheck ==
    /\ cardValid # NoValue => cardValid.value = PassesLuhn(cardArg)
    /\ (cardValid # NoValue
        /\ cardArg = <<"4","5","3","2","0","1","5","1","1","2","8","3","0","3","6","6">>)
          => cardValid.value
    /\ (cardValid # NoValue
        /\ cardArg = <<"4","5","3","2","0","1","5","1","1","2","8","3","0","3","6","7">>)
          => ~cardValid.value

C20_Witness ==
    /\ cardArg = <<"4","5","3","2","-","0","1","5","1"," ","1","2","8","3","-","0","3","6","6">>
    /\ cardValid = [kind |-> "boolean", value |-> TRUE]

\* The number of the claim that differs in its last digit has been rejected.
C20_RejectedReached ==
    /\ cardArg = <<"4","5","3","2","0","1","5","1","1","2","8","3","0","3","6","7">>
    /\ cardValid = [kind |-> "boolean", value |-> FALSE]

-----------------------------------------------------------------------------
(* Properties of the live interceptor list *)

\* The passes in which a registering interceptor at position k made the list
\* longer than it was when request read its first element.
GrewInPass(k) ==
    /\ k \in 1..Len(reqLog)
    /\ reqLog[k].interceptor \in RegisteringRequestInterceptors
    /\ Len(requestInterceptors) > k
    /\ requestInterceptors[Len(requestInterceptors)] = "traceB"
    /\ \A j \in 1..(Len(requestInterceptors) - 1) : requestInterceptors[j] # "traceB"

\* C21: an interceptor that a request interceptor registers while a pass is
\* in progress is visited by that same pass, after the interceptors
\* registered before it.
C21_RegisteredDuringPassIsVisited ==
    \A k \in 1..Len(reqLog) :
        (RequestCalled /\ GrewInPass(k)) =>
            /\ Len(reqLog) = Len(requestInterceptors)
            /\ reqLog[Len(reqLog)].interceptor = "traceB"
            /\ \A j \in 1..Len(reqLog) : reqLog[j].index = j

\* What the code does: the pass ends with the TypeError of C1 right after the
\* first interceptor returned, so the interceptor it registered is in the list
\* and was not visited.
C21_PassEndsAfterFirst ==
    \A k \in 1..Len(reqLog) :
        (RequestCalled /\ GrewInPass(k)) =>
            /\ k = 1
            /\ Len(reqLog) = 1
            /\ Len(requestInterceptors) >= 2
            /\ outcome = Rejected(ConstAssignError)

C21_Witness ==
    /\ RequestCalled
    /\ GrewInPass(1)
    /\ requestInterceptors = <<"registrar", "traceB">>
    /\ Len(reqLog) = 1
    /\ outcome = Rejected(ConstAssignError)

-----------------------------------------------------------------------------
(* Properties of requests after the load *)

\* C22: after init has run, every call of request whose request interceptors
\* each return a config invokes fetch exactly once, with baseUrl + endpoint and
\* the folded config, and does not fail before the dispatch.
C22_RequestAfterInitReachesFetch ==
    (loaded /\ RequestCalled) =>
        /\ Len(fetchLog) = 1
        /\ fetchLog[1].url = url
        /\ fetchLog[1].config = config
        /\ ~(pc = "settled" /\ response = NoResponse /\ outcome = Rejected(ConstAssignError))

\* What the code does: a call reaches fetch exactly when no request
\* interceptor is registered, which after a load that could read localStorage
\* is never the case, since init registered the auth interceptor.
C22_FetchOnlyWithoutInterceptors ==
    (loaded /\ RequestCalled) =>
        /\ (fetchLog # <<>>) <=> (requestInterceptors = <<>>)
        /\ storageOk => (requestInterceptors # <<>> /\ requestInterceptors[1] = "auth")
        /\ requestInterceptors # <<>> => outcome = Rejected(ConstAssignError)

C22_Witness ==
    /\ loaded
    /\ storageOk
    /\ RequestCalled
    /\ requestInterceptors = <<"auth">>
    /\ reqLog # <<>>
    /\ reqLog[1].ret # ConstAssignError
    /\ fetchLog = <<>>
    /\ outcome = Rejected(ConstAssignError)

-----------------------------------------------------------------------------
(* Properties of cached falsy values *)

\* The entry under key is present and within its time to live.
Unexpired(key) ==
    key \in DOMAIN cache /\ now - cache[key].timestamp <= cache[key].timeout

\* C25: whatever value d a getWithCache miss stored under a key, the falsy
\* ones included, a getWithCache for that key within the time to live returns
\* {data: d, fromCache: true} and makes no network call.
C25_AnyStoredValueIsServed ==
    [][ \A e \in Endpoints, q \in ParamsSet, ck \in PlainCacheKeyArgs :
           LET key == IF ck # NullValue THEN ck.value ELSE e \o StringifyParams(q) IN
           (getWithCache(e, q, ck) /\ Unexpired(key)) =>
               /\ gOutcome' = Resolved([kind |-> "hit", data |-> cache[key].data,
                                        fromCache |-> TRUE])
               /\ gPc' = "settled"
               /\ pc' = "idle"
               /\ reqLog' = reqLog /\ fetchLog' = fetchLog
      ]_vars

\* What the code does: the unexpired entry is served when its value is truthy;
\* when the value is falsy the call goes through get like a miss.
C25_FalsyStoredValueIsAMiss ==
    [][ \A e \in Endpoints, q \in ParamsSet, ck \in PlainCacheKeyArgs :
           LET key == IF ck # NullValue THEN ck.value ELSE e \o StringifyParams(q) IN
           (getWithCache(e, q, ck) /\ Unexpired(key)) =>
               IF ValueTruthy(cache[key].data)
               THEN /\ gOutcome' = Resolved([kind |-> "hit", data |-> cache[key].data,
                                             fromCache |-> TRUE])
                    /\ gPc' = "settled"
                    /\ pc' = "idle"
               ELSE /\ gPc' = "awaiting"
                    /\ gOutcome' = NoValue
                    /\ pc' # "idle"
                    /\ initialConfig'.method = "GET"
      ]_vars

\* A miss stored the empty string, and the next call for the key, within the
\* time to live, is waiting for the network.
C25_Witness ==
    /\ gPc = "awaiting"
    /\ Unexpired(gKey)
    /\ cache[gKey].data = [kind |-> "text", text |-> ""]
    /\ gCached = cache[gKey].data
    /\ pc = "fetching"
    /\ Len(fetchLog) = 1

-----------------------------------------------------------------------------
(* Properties of retryRequest for small maxRetries *)

\* C28: for every maxRetries, zero and the negative ones included,
\* retryRequest invokes requestFn at least once and settles with a value
\* requestFn returned or an error requestFn raised; it never resolves without
\* having invoked requestFn.
C28_AtLeastOneInvocation ==
    rPc = "settled" =>
        /\ rCalls >= 1
        /\ rLog # <<>>
        /\ rOutcome = rLog[Len(rLog)]

\* What the code does: that, when maxRetries >= 1; with maxRetries <= 0 the
\* loop body never runs and the call resolves with undefined.
C28_NoInvocationWithoutRetries ==
    rPc = "settled" =>
        IF rMax >= 1
        THEN /\ rCalls >= 1
             /\ rLog # <<>>
             /\ rOutcome = rLog[Len(rLog)]
        ELSE /\ rCalls = 0
             /\ rLog = <<>>
             /\ rOutcome = Resolved(UndefinedValue)

C28_Witness ==
    /\ rPc = "settled"
    /\ rMax = 0
    /\ rCalls = 0
    /\ rSleeps = <<>>
    /\ rOutcome = Resolved(UndefinedValue)

-----------------------------------------------------------------------------
(* Properties of the session *)

\* C23: after any sequence of ApiClient.init, App.login, App.logout and
\* handleUnauthorized, ApiClient.authToken equals the value stored under the
\* localStorage key authToken: both absent, or the same token.
C23_TokenMirrorsStorage ==
    (loaded /\ storageOk) => authToken = localStorage.authToken

\* What the code does: login and logout write localStorage only, so the two
\* differ after a logout, with the token still in memory.
C23_LogoutLeavesMemoryToken ==
    /\ (loaded /\ storageOk /\ authToken # localStorage.authToken) =>
          (authToken \in Tokens /\ localStorage.authToken = Null)
    /\ (oPc = "settled" /\ storageOk) => localStorage.authToken = Null

C23_Witness ==
    /\ loaded
    /\ storageOk
    /\ oPc = "settled"
    /\ oOutcome = Resolved(UndefinedValue)
    /\ localStorage.authToken = Null
    /\ authToken = "t1"

\* C24: when localStorage holds a token and the call GET /auth/verify
\* resolves with the envelope of a 2xx response, initializeAuth does not call
\* logout and leaves the entries authToken and user in localStorage.
C24_SessionKeptOnVerifiedToken ==
    [][ \A k \in 1..MaxInitCalls :
           ( /\ initializeAuthResumes(k)
             /\ outcome.kind = "resolved"
             /\ outcome.value.kind = "envelope"
             /\ outcome.value.ok ) =>
               /\ authLog'.logout = FALSE
               /\ oPc' = "idle"
               /\ owner' # "logout"
               /\ localStorage' = localStorage
      ]_vars

\* What the code does: however the call settles, initializeAuth calls logout.
C24_LogoutHoweverVerifySettles ==
    [][ \A k \in 1..MaxInitCalls :
           initializeAuthResumes(k) =>
               /\ authLog'.logout = TRUE
               /\ authLog'.verify = outcome
               /\ oPc' = "awaiting"
               /\ owner' = "logout"
               /\ currentUser' = currentUser
      ]_vars

\* The token was verified with a 200, logout was called and has removed the
\* entries and redirected.
C24_Witness ==
    /\ authLog # NoValue
    /\ authLog.token = "t1"
    /\ authLog.verify.kind = "resolved"
    /\ authLog.verify.value.kind = "envelope"
    /\ authLog.verify.value.status = 200
    /\ authLog.verify.value.ok
    /\ authLog.logout
    /\ oPc = "settled"
    /\ localStorage = [authToken |-> Null, user |-> Null]
    /\ redirect = "../index.html"

\* The calls of App.init that went past the test of isInitialized.
PastTheTest == {k \in 1..MaxInitCalls : aPc[k] \in {"services", "verify", "auth", "done"}}

\* C27: the initialization sequence of App.init runs at most once however
\* many times App.init is called, also when a call is made while an earlier
\* one is suspended at an await; the global listeners are installed at most
\* once.
C27_SequenceRunsAtMostOnce ==
    /\ Cardinality(PastTheTest) <= 1
    /\ listeners <= 1

\* What the code does: a call returns early only after an earlier call has
\* run the sequence to its end; every call that resumed from its first await
\* installed the listeners.
C27_OnlyACompletedInitStopsTheNext ==
    /\ \A k \in 1..MaxInitCalls :
          aPc[k] = "returned" => (isInitialized /\ \E j \in 1..MaxInitCalls : aPc[j] = "done")
    /\ isInitialized <=> (\E j \in 1..MaxInitCalls : aPc[j] = "done")
    /\ listeners = Cardinality({k \in 1..MaxInitCalls : aPc[k] \in {"verify", "auth", "done"}})

\* Two calls are suspended in initializeAuth, each having installed the
\* listeners, and the flag is still unset.
C27_Witness ==
    /\ listeners = 2
    /\ ~isInitialized
    /\ aPc[1] \in {"verify", "auth"}
    /\ aPc[2] \in {"verify", "auth"}

-----------------------------------------------------------------------------
(* Properties of overlapping calls of getWithCache *)

\* Two calls of getWithCache for the same key are in progress, the later one
\* having started while the earlier one was waiting for its GET.
PairOverlaps == parked # NoValue /\ gPc # "idle" /\ parked.gKey = gKey

\* The number of true values among two
Count(a, b) == (IF a THEN 1 ELSE 0) + (IF b THEN 1 ELSE 0)

\* C26 as stated: two overlapping calls of getWithCache for the same key issue
\* at most one GET between them and write the entry of the key at most once.
C26_OverlappingCallsShareOneGet ==
    PairOverlaps =>
        /\ Len(fetchLog) + Len(parked.fetchLog) <= 1
        /\ Count(gWrote, parked.gWrote) <= 1

\* A call of getWithCache did what a call alone does: with a truthy cached
\* value it neither called fetch nor wrote; without one it called get, which
\* called fetch once unless a request interceptor ended it, and it wrote the
\* entry exactly when get resolved.
ActedAlone(c) ==
    IF ValueTruthy(c.gCached)
    THEN /\ c.fetchLog = <<>>
         /\ ~c.gWrote
         /\ c.gOutcome.kind = "resolved" /\ c.gOutcome.value.fromCache
    ELSE /\ c.initialConfig.method = "GET"
         /\ Len(c.fetchLog) = (IF c.reqLog = <<>> THEN 1 ELSE 0)
         /\ c.gPc = "settled" => (c.gWrote <=> c.gOutcome.kind = "resolved")
         /\ c.gPc = "awaiting" => ~c.gWrote

\* C26 as amended: overlapping calls for the same key are not coordinated:
\* each call that finds no cached value issues its own GET and, when it
\* resolves, writes the entry, so two calls issue up to two GETs and write up
\* to twice.
C26_OverlappingCallsActAlone ==
    PairOverlaps => (ActedAlone(FollowedCall) /\ ActedAlone(parked))

\* Both calls have settled, each after its own GET and its own write.
C26_Witness ==
    /\ PairOverlaps
    /\ gPc = "settled"
    /\ parked.gPc = "settled"
    /\ Len(fetchLog) = 1
    /\ Len(parked.fetchLog) = 1
    /\ gWrote
    /\ parked.gWrote

-----------------------------------------------------------------------------
(* Properties of the debounced function *)

\* The call number i is the last of its burst: no call follows, or the next
\* one comes wait or more after it.
LastOfBurst(i) ==
    i = Len(dCalls) \/ dCalls[i + 1].at - dCalls[i].at >= dWait

\* The burst that the call number i ends is over: another burst has begun, or
\* wait has passed and the timer of the call has run.
BurstOver(i) ==
    /\ LastOfBurst(i)
    /\ i < Len(dCalls) \/ dPending = NoValue

\* One invocation per burst that is over, wait after its last call and with
\* the arguments of that call, from the call number i on.
RECURSIVE TrailingEdges(_)
TrailingEdges(i) ==
    IF i > Len(dCalls) THEN <<>>
    ELSE (IF BurstOver(i)
          THEN <<[at |-> dCalls[i].at + dWait, args |-> dCalls[i].args]>>
          ELSE <<>>) \o TrailingEdges(i + 1)

====
